---- MODULE Spec2Model ----
(***************************************************************************)
(* Session/Window directory synchronisation of the tmux session manager    *)
(* extension: the tmux library (lib/tmux), the command executor            *)
(* (lib/utils), the single-file views (tmux_sessions.tsx), the component   *)
(* views (components/WindowList.tsx) and the forms.                        *)
(*                                                                         *)
(* Text is a sequence of one-character strings.  A command line is a       *)
(* sequence of pieces [c, o]: c is the text of the piece and o its origin: *)
(* "tpl" for text of the template literal, "arg" for a character of an     *)
(* interpolated argument, "esc" for a backslash added by String.replace.   *)
(***************************************************************************)
EXTENDS Integers, Sequences, FiniteSets, TLC

VARIABLES
    revision,   \* the part of the repository that runs, one of Revisions
    procs,      \* external processes started by exec whose callback has not run
    nexec,      \* number of exec invocations so far; the next process id is nexec + 1
    ret,        \* settlement of the last library promise (lib/tmux)
    life,       \* lifecycle of the view: "created" before its effect has run, then
                \* "mounted", and "unmounted" after the cleanup of the effect
    sessions,   \* TmuxSessions: useState<SessionInfo[]>
    isLoading,  \* TmuxSessions: useState(true)
    timer,      \* TmuxSessions: the setInterval handle is active
    held,       \* id of the listing process whose result sessions holds (0: initial state)
    sessionProp, \* WindowList: the sessionName prop
    windows,    \* WindowList: useState<WindowInfo[]>
    winLoading, \* WindowList: useState(true)
    winTimer,   \* WindowList: the session names of the loadWindows callbacks whose
                \* setInterval handle is active
    batches,    \* first revision: the loadSessions calls waiting for their Promise.all
    toasts,     \* showToast calls: [n |-> how many, last |-> the latest one]
    form,       \* the form on top of the navigation stack, NoForm when popped
    tmux,       \* the tmux server: what a list-sessions started now reports, and how
                \* many exec invocations had been made when that last changed
    step        \* the latest step: its action, the error of the callback, the text
                \* submitted or handed to the callback, the delay of the timer that ran it

vars == <<revision, procs, nexec, ret, life, sessions, isLoading, timer, held,
          sessionProp, windows, winLoading, winTimer, batches, toasts, form, tmux, step>>

----------------------------------------------------------------------------
(* Bounds *)

MaxLines == 2      \* lines of one listing output
MaxExec == 2       \* calls, user actions and timer ticks that start a process
MaxToasts == 1     \* submissions rejected by a form's validation
MaxFormLen == 1    \* characters typed into a field of a form
MaxFirstNames == 1 \* sessions in one listing of the first revision
MaxNameLen == 1    \* characters of a caller-supplied name, target or identifier
MaxDirLen == 2     \* characters of a caller-supplied working directory

----------------------------------------------------------------------------
(* Text *)

Whitespace == {" ", "\n", "\t", "\r"}
Digits == {"0", "1", "2", "3", "4", "5", "6", "7", "8", "9"}
Undefined == <<"#undefined">>
NaN == [nan |-> TRUE, v |-> 0]
Num(n) == [nan |-> FALSE, v |-> n]

RECURSIVE TrimStart(_)
TrimStart(s) ==
    IF s = <<>> THEN <<>>
    ELSE IF Head(s) \in Whitespace THEN TrimStart(Tail(s)) ELSE s

RECURSIVE TrimEnd(_)
TrimEnd(s) ==
    IF s = <<>> THEN <<>>
    ELSE IF s[Len(s)] \in Whitespace THEN TrimEnd(SubSeq(s, 1, Len(s) - 1)) ELSE s

Trim(s) == TrimEnd(TrimStart(s))

\* The position of the first occurrence of sep in s, 0 when there is none.
IndexOf(s, sep) ==
    LET hits == {i \in 1..(Len(s) - Len(sep) + 1) : SubSeq(s, i, i + Len(sep) - 1) = sep}
    IN IF hits = {} THEN 0 ELSE CHOOSE i \in hits : \A j \in hits : i <= j

\* String.prototype.split(sep), sep not empty.
RECURSIVE Split(_, _)
Split(s, sep) ==
    LET i == IndexOf(s, sep)
    IN IF i = 0 THEN <<s>>
       ELSE <<SubSeq(s, 1, i - 1)>> \o Split(SubSeq(s, i + Len(sep), Len(s)), sep)

RECURSIVE Join(_, _)
Join(parts, sep) ==
    IF parts = <<>> THEN <<>>
    ELSE IF Len(parts) = 1 THEN parts[1]
    ELSE parts[1] \o sep \o Join(Tail(parts), sep)

Part(parts, i) == IF i <= Len(parts) THEN parts[i] ELSE Undefined

DigitVal(c) == CHOOSE n \in 0..9 : <<"0", "1", "2", "3", "4", "5", "6", "7", "8", "9">>[n + 1] = c

RECURSIVE DigitsPrefix(_)
DigitsPrefix(s) ==
    IF s = <<>> \/ Head(s) \notin Digits THEN <<>>
    ELSE <<Head(s)>> \o DigitsPrefix(Tail(s))

RECURSIVE DecValue(_, _)
DecValue(ds, acc) ==
    IF ds = <<>> THEN acc ELSE DecValue(Tail(ds), acc * 10 + DigitVal(Head(ds)))

ParseInt(s) ==
    IF s = Undefined THEN NaN
    ELSE LET t == TrimStart(s)
             neg == t # <<>> /\ Head(t) = "-"
             u == IF t # <<>> /\ Head(t) \in {"-", "+"} THEN Tail(t) ELSE t
             ds == DigitsPrefix(u)
         IN IF ds = <<>> THEN NaN
            ELSE IF neg THEN Num(0 - DecValue(ds, 0)) ELSE Num(DecValue(ds, 0))

\* n || 0
OrZero(n) == IF n.nan \/ n.v = 0 THEN 0 ELSE n.v

FilterNothing(lines) == lines

FilterSelect(lines) == SelectSeq(lines, LAMBDA line : Len(Trim(line)) > 0)

----------------------------------------------------------------------------
(* lib/tmux: listing *)

Sep == <<"|", "|", "|">>
NL == <<"\n">>

ParseSessionLineSwapped(line) ==
    LET parts == Split(line, Sep)
    IN [name |-> Part(parts, 1),
        windowCount |-> OrZero(ParseInt(Part(parts, 6))),
        attached |-> Part(parts, 3) = <<"1">>,
        created |-> Part(parts, 4),
        currentWindow |-> Part(parts, 5),
        paneCount |-> OrZero(ParseInt(Part(parts, 2))),
        lastAttached |-> OrZero(ParseInt(Part(parts, 7)))]

ParseSessionLine(line) ==
    LET parts == Split(line, Sep)
    IN [name |-> Part(parts, 1),
        windowCount |-> OrZero(ParseInt(Part(parts, 2))),
        attached |-> Part(parts, 3) = <<"1">>,
        created |-> Part(parts, 4),
        currentWindow |-> Part(parts, 5),
        paneCount |-> OrZero(ParseInt(Part(parts, 6))),
        lastAttached |-> OrZero(ParseInt(Part(parts, 7)))]

ParseSessionsByName(stdout) ==
    LET lines == FilterSelect(Split(Trim(stdout), NL))
        rs == [i \in 1..Len(lines) |-> ParseSessionLine(lines[i])]
        first == {i \in 1..Len(rs) : \A j \in 1..(i - 1) : rs[j].name # rs[i].name}
    IN IF first = 1..Len(rs) THEN rs ELSE SubSeq(rs, 1, 1)

ParseSessions(stdout) ==
    LET lines == FilterSelect(Split(Trim(stdout), NL))
    IN [i \in 1..Len(lines) |-> ParseSessionLine(lines[i])]

CompareDetachedFirst(a, b) ==
    IF a.attached # b.attached
    THEN (IF a.attached THEN 1 ELSE -1)
    ELSE b.lastAttached - a.lastAttached

CompareSessions(a, b) ==
    IF a.attached # b.attached
    THEN (IF a.attached THEN -1 ELSE 1)
    ELSE b.lastAttached - a.lastAttached

\* Array.prototype.sort(cmp) is stable: x goes in front of the first element
\* it compares less than, behind every other one.  cmp is the comparator as a
\* function on pairs of elements.
RECURSIVE InsertBeforeTies(_, _, _)
InsertBeforeTies(cmp, sorted, x) ==
    IF sorted = <<>> THEN <<x>>
    ELSE IF cmp[<<x, Head(sorted)>>] <= 0
         THEN <<x>> \o sorted
         ELSE <<Head(sorted)>> \o InsertBeforeTies(cmp, Tail(sorted), x)

RECURSIVE InsertSorted(_, _, _)
InsertSorted(cmp, sorted, x) ==
    IF sorted = <<>> THEN <<x>>
    ELSE IF cmp[<<x, Head(sorted)>>] < 0
         THEN <<x>> \o sorted
         ELSE <<Head(sorted)>> \o InsertSorted(cmp, Tail(sorted), x)

RECURSIVE SortFrom(_, _, _)
SortFrom(cmp, rest, sorted) ==
    IF rest = <<>> THEN sorted
    ELSE SortFrom(cmp, Tail(rest), InsertSorted(cmp, sorted, Head(rest)))

Sort(cmp, rs) == SortFrom(cmp, rs, <<>>)

Elements(rs) == {rs[i] : i \in 1..Len(rs)}

SortSessions(rs) ==
    Sort([p \in Elements(rs) \X Elements(rs) |-> CompareSessions(p[1], p[2])], rs)

ParseWindowLineTruthy(line) ==
    LET parts == Split(line, Sep)
    IN [id |-> Part(parts, 1),
        index |-> Part(parts, 2),
        name |-> Part(parts, 3),
        active |-> Part(parts, 4) \notin {<<"0">>, <<>>, Undefined},
        layout |-> Part(parts, 5)]

ParseWindowLine(line) ==
    LET parts == Split(line, Sep)
    IN [id |-> Part(parts, 1),
        index |-> Part(parts, 2),
        name |-> Part(parts, 3),
        active |-> Part(parts, 4) = <<"1">>,
        layout |-> Part(parts, 5)]

ParseWindowsByIndex(stdout) ==
    LET lines == FilterSelect(Split(Trim(stdout), NL))
        rs == [i \in 1..Len(lines) |-> ParseWindowLine(lines[i])]
    IN IF Len(rs) = 2 /\ OrZero(ParseInt(rs[2].index)) < OrZero(ParseInt(rs[1].index))
       THEN <<rs[2], rs[1]>>
       ELSE rs

ParseWindows(stdout) ==
    LET lines == FilterSelect(Split(Trim(stdout), NL))
    IN [i \in 1..Len(lines) |-> ParseWindowLine(lines[i])]

----------------------------------------------------------------------------
(* lib/tmux: command lines *)

Tpl(str) == <<[c |-> str, o |-> "tpl"]>>
Arg(text) == [i \in 1..Len(text) |-> [c |-> text[i], o |-> "arg"]]

\* The text handed to exec: the pieces without their origin.
CmdText(cmd) == [i \in 1..Len(cmd) |-> cmd[i].c]
\* The characters of cmd that come from interpolated arguments.
ArgChars(cmd) == CmdText(SelectSeq(cmd, LAMBDA x : x.o = "arg"))

SessionFormat ==
    "#{session_name}|||#{session_windows}|||#{session_attached}|||#{session_created}|||#{window_name}|||#{session_panes}|||#{session_last_attached}"
WindowFormat ==
    "#{window_id}|||#{window_index}|||#{window_name}|||#{window_active}|||#{window_layout}"

ListSessionsCmd ==
    Tpl("tmux list-sessions -F \"") \o Tpl(SessionFormat) \o Tpl("\" 2>/dev/null")
ListWindowsCmd(sessionName) ==
    Tpl("tmux list-windows -t ") \o Arg(sessionName) \o Tpl(" -F \"")
        \o Tpl(WindowFormat) \o Tpl("\" 2>/dev/null")

\* The backquote character; the other characters stand for themselves.
Backquote == "<backquote>"

\* The character class ["'$`\\] of the replace pattern.
EscapeMeta == {"\"", "'", "$", Backquote, "\\"}

EscapeNothing(dir) == Arg(dir)

\* dir.replace(/(["'$`\\])/g, "\\$1")
RECURSIVE EscapeDir(_)
EscapeDir(dir) ==
    IF dir = <<>> THEN <<>>
    ELSE (IF Head(dir) \in EscapeMeta
          THEN <<[c |-> "\\", o |-> "esc"], [c |-> Head(dir), o |-> "arg"]>>
          ELSE <<[c |-> Head(dir), o |-> "arg"]>>) \o EscapeDir(Tail(dir))

SwitchClientCmd(target) == Tpl("tmux switch-client -t ") \o Arg(target)
KillSessionCmd(name) == Tpl("tmux kill-session -t ") \o Arg(name)
CreateSessionCmd(name, dir) ==
    Tpl("tmux new-session -d -s ") \o Arg(name) \o Tpl(" -c \"")
        \o EscapeDir(dir) \o Tpl("\"")
RenameSessionCmd(oldName, newName) ==
    Tpl("tmux rename-session -t ") \o Arg(oldName) \o Tpl(" ") \o Arg(newName)
KillWindowCmd(id) == Tpl("tmux kill-window -t ") \o Arg(id)
NewWindowCmd(sessionName, windowName) ==
    Tpl("tmux new-window -t ") \o Arg(sessionName) \o Tpl(" -n ") \o Arg(windowName)
RenameWindowCmd(id, newName) ==
    Tpl("tmux rename-window -t ") \o Arg(id) \o Tpl(" ") \o Arg(newName)

----------------------------------------------------------------------------
(* Inputs *)

SeqsUpTo(S, n) == UNION {[1..k -> S] : k \in 0..n}

InputChars == {"a", " ", "\"", "'", Backquote, "\\", "$"}
Names == SeqsUpTo(InputChars, MaxNameLen)
Dirs == SeqsUpTo(InputChars, MaxDirLen)
\* What a user types into a name field and into the directory field.
FormNames == SeqsUpTo({"a", " "}, MaxFormLen)
FormDirs == SeqsUpTo({"a", " ", "\"", "$"}, MaxFormLen) \cup {Undefined}

SessionLines ==
    {Join(<<n, <<"2">>, a, <<"7">>, <<"w">>, <<"3">>, l>>, Sep) :
        n \in {<<"a">>}, a \in {<<"1">>, <<"0">>},
        l \in {<<"5", "0", "0">>, <<"9", "0", "0">>, <<>>}}

WindowLines ==
    {Join(<<i, x, n, a, <<"L">>>>, Sep) :
        i \in {<<"@", "1">>}, x \in {<<"0">>, <<"1">>},
        n \in {<<"a">>}, a \in {<<"1">>, <<"0">>}}

\* Every line of the multiplexer output ends with a newline.
RECURSIVE Output(_)
Output(lines) == IF lines = <<>> THEN <<>> ELSE Head(lines) \o NL \o Output(Tail(lines))

SessionOutputs == {Output(ls) : ls \in SeqsUpTo(SessionLines, MaxLines)}

\* The listings a polling view sees: an attached session "a" and a detached
\* session "b" that was last attached before or after it.
PolledLines ==
    {Join(<<r[1], <<"2">>, r[2], <<"7">>, <<"w">>, <<"3">>, r[3]>>, Sep) :
        r \in {<<<<"a">>, <<"1">>, <<"5", "0", "0">>>>,
               <<<<"b">>, <<"0">>, <<"5", "0", "0">>>>,
               <<<<"b">>, <<"0">>, <<"9", "0", "0">>>>}}
PolledOutputs == {Output(ls) : ls \in SeqsUpTo(PolledLines, MaxLines)}
WindowOutputs == {Output(ls) : ls \in SeqsUpTo(WindowLines, MaxLines)}

PolledWindowLines ==
    {Join(<<w[1], w[2], w[3], w[4], <<"L">>>>, Sep) :
        w \in {<<<<"@", "1">>, <<"0">>, <<"a">>, <<"1">>>>,
               <<<<"@", "2">>, <<"1">>, <<"b">>, <<"0">>>>}}
PolledWindowOutputs == {Output(ls) : ls \in SeqsUpTo(PolledWindowLines, MaxLines)}

\* What a command other than a listing prints.
CommandOutputs == {<<>>, <<"o", "k", "\n">>}

\* The message of the ExecException of a failed command.
ErrorMessages == {<<"no server running">>, <<"command failed">>}
NoMessage == <<>>

\* What exec hands to its callback: (error, stdout).
Failure(message) == [error |-> TRUE, stdout |-> <<>>, message |-> message]
Success(stdout) == [error |-> FALSE, stdout |-> stdout, message |-> NoMessage]
Outcomes(outputs) ==
    {Failure(m) : m \in ErrorMessages} \cup {Success(o) : o \in outputs}

----------------------------------------------------------------------------
(* State after construction *)

NoRet == [op |-> "none", status |-> "none", value |-> <<>>, err |-> FALSE]
NoToast == [style |-> "none", title |-> "none", message |-> NoMessage]
NoForm == [kind |-> "none", currentName |-> <<>>, windowId |-> <<>>]

\* "lib": lib/tmux called directly; "sessions" and "windows": the two views of
\* tmux_sessions.tsx with their forms; "components": components/WindowList.tsx
\* with components/forms; "first": the first revision of the session view
\* (part_002); "second": its second revision (part_001);
\* "parse": the parsers of the listing output applied to a text.
Revisions == {"lib", "sessions", "windows", "components", "first", "second", "parse"}

Init ==
    /\ revision \in Revisions
    /\ life = "created"
    /\ procs = {}
    /\ nexec = 0
    /\ ret = NoRet
    /\ sessions = <<>>
    /\ isLoading = TRUE
    /\ timer = FALSE
    /\ held = 0
    /\ sessionProp = <<>>
    /\ windows = <<>>
    /\ winLoading = TRUE
    /\ winTimer = {}
    /\ batches = {}
    /\ toasts = [n |-> 0, last |-> NoToast]
    /\ form = NoForm
    /\ tmux = [outcome |-> Success(<<>>), since |-> 0]
    /\ step = [act |-> "Init", error |-> FALSE, value |-> <<>>, after |-> 0]

sessionVars == <<sessions, isLoading, timer, held>>
windowVars == <<sessionProp, windows, winLoading, winTimer>>
viewVars == <<life, sessionVars, windowVars, batches, toasts, form>>

----------------------------------------------------------------------------
(* lib/utils: the command executor *)

\* exec(command, callback): the process runs; its callback has not been called.
Proc(cmd, k, op, args) ==
    [id |-> nexec + 1, cmd |-> cmd, k |-> k, op |-> op, args |-> args, ctx |-> <<>>]

Exec(cmd, k, op, args) ==
    /\ procs' = procs \cup {Proc(cmd, k, op, args)}
    /\ nexec' = nexec + 1

\* exec called by a handler that holds the value it was given in a closure.
ExecHolding(cmd, k, op, args, given) ==
    /\ procs' = procs \cup {[Proc(cmd, k, op, args) EXCEPT !.ctx = given]}
    /\ nexec' = nexec + 1

\* The callback of process p runs and calls exec again.
ExecAfter(p, cmd, k, op, args) ==
    /\ procs' = (procs \ {p}) \cup {Proc(cmd, k, op, args)}
    /\ nexec' = nexec + 1

\* The callback of process p runs and starts nothing.
Finish(p) ==
    /\ procs' = procs \ {p}
    /\ nexec' = nexec

Did(act) == step' = [act |-> act, error |-> FALSE, value |-> <<>>, after |-> 0]
\* A callback of exec: value is what exec hands to it, the message of the error
\* or the standard output.
Called(act, outcome) ==
    step' = [act |-> act, error |-> outcome.error,
             value |-> IF outcome.error THEN outcome.message ELSE outcome.stdout,
             after |-> 0]
Submitted(act, text) == step' = [act |-> act, error |-> FALSE, value |-> text, after |-> 0]
\* The callback of setInterval(f, delay): it runs delay milliseconds after the
\* interval was set or fired last.
Fired(act, delay) == step' = [act |-> act, error |-> FALSE, value |-> <<>>, after |-> delay]

\* showToast({ style, title, message })
ShowToast(style, title, message) ==
    toasts' = [n |-> toasts.n + 1,
               last |-> [style |-> style, title |-> title, message |-> message]]

\* The user submits a form again only after the previous submission returned.
NoSubmission(k) == \A p \in procs : p.k # k

\* handleError(title, error): the message of the toast is error.message.
HandleError(title, error) == ShowToast("failure", title, error)

RunCommandNoOutput(outcome) ==
    IF outcome.error
    THEN [status |-> "rejected", value |-> outcome.message]
    ELSE [status |-> "resolved", value |-> <<>>]

RunCommandSwallow(outcome) ==
    IF outcome.error
    THEN [status |-> "resolved", value |-> <<>>]
    ELSE [status |-> "resolved", value |-> outcome.stdout]

\* runCommand: reject(error) when exec reports an error, resolve(stdout) otherwise.
RunCommand(outcome) ==
    IF outcome.error
    THEN [status |-> "rejected", value |-> outcome.message]
    ELSE [status |-> "resolved", value |-> outcome.stdout]

----------------------------------------------------------------------------
(* lib/tmux: one call, awaited.  The module keeps no state between calls. *)

GetSessionsRethrow(outcome) ==
    LET r == RunCommand(outcome)
    IN IF r.status = "rejected"
       THEN [status |-> "rejected", value |-> r.value]
       ELSE [status |-> "resolved", value |-> SortSessions(ParseSessions(r.value))]

GetSessions(outcome) ==
    LET r == RunCommand(outcome)
    IN IF r.status = "rejected"
       THEN [status |-> "resolved", value |-> <<>>]
       ELSE [status |-> "resolved", value |-> SortSessions(ParseSessions(r.value))]

GetWindowsEmptying(outcome) ==
    LET r == RunCommand(outcome)
    IN IF r.status = "rejected"
       THEN [status |-> "resolved", value |-> <<>>]
       ELSE [status |-> "resolved", value |-> ParseWindows(r.value)]

GetWindows(outcome) ==
    LET r == RunCommand(outcome)
    IN IF r.status = "rejected"
       THEN [status |-> "rejected", value |-> r.value]
       ELSE [status |-> "resolved", value |-> ParseWindows(r.value)]

Pending(op) == [op |-> op, status |-> "pending", value |-> <<>>, err |-> FALSE]
Settled(op, r, outcome) ==
    [op |-> op, status |-> r.status, value |-> r.value, err |-> outcome.error]

\* No call has been made.
LibIdle == revision = "lib" /\ ret = NoRet

LibCall(cmd, k, op, args) ==
    /\ Did(op)
    /\ Exec(cmd, k, op, args)
    /\ ret' = Pending(op)
    /\ UNCHANGED <<revision, tmux, viewVars>>

LibGetSessions ==
    /\ LibIdle
    /\ LibCall(ListSessionsCmd, "getSessions", "getSessions", <<>>)

LibGetWindows ==
    /\ LibIdle
    /\ \E n \in Names : LibCall(ListWindowsCmd(n), "getWindows", "getWindows", <<n>>)

LibSwitchClient ==
    /\ LibIdle
    /\ \E t \in Names : LibCall(SwitchClientCmd(t), "runCommand", "switchClient", <<t>>)

LibKillSession ==
    /\ LibIdle
    /\ \E n \in Names : LibCall(KillSessionCmd(n), "runCommand", "killSession", <<n>>)

LibCreateSession ==
    /\ LibIdle
    /\ \E n \in Names, d \in Dirs :
           LibCall(CreateSessionCmd(n, d), "runCommand", "createSession", <<n, d>>)

LibRenameSession ==
    /\ LibIdle
    /\ \E o \in Names, n \in Names :
           LibCall(RenameSessionCmd(o, n), "runCommand", "renameSession", <<o, n>>)

LibKillWindowRefreshing ==
    /\ LibIdle
    /\ \E i \in Names :
           /\ Did("killWindow")
           /\ procs' = procs \cup {Proc(KillWindowCmd(i), "runCommand", "killWindow", <<i>>),
                                   [Proc(ListWindowsCmd(i), "getWindows", "getWindows", <<i>>)
                                       EXCEPT !.id = nexec + 2]}
           /\ nexec' = nexec + 2
           /\ ret' = Pending("killWindow")
           /\ UNCHANGED <<revision, tmux, viewVars>>

LibKillWindow ==
    /\ LibIdle
    /\ \E i \in Names : LibCall(KillWindowCmd(i), "runCommand", "killWindow", <<i>>)

LibNewWindow ==
    /\ LibIdle
    /\ \E s \in Names, w \in Names :
           LibCall(NewWindowCmd(s, w), "runCommand", "newWindow", <<s, w>>)

LibRenameWindow ==
    /\ LibIdle
    /\ \E i \in Names, n \in Names :
           LibCall(RenameWindowCmd(i, n), "runCommand", "renameWindow", <<i, n>>)

LibDone(p, outcome, r) ==
    /\ Called(p.k, outcome)
    /\ Finish(p)
    /\ ret' = Settled(p.op, r, outcome)
    /\ UNCHANGED <<revision, tmux, viewVars>>

LibGetSessionsDone ==
    \E p \in procs :
        /\ p.k = "getSessions"
        /\ \E outcome \in Outcomes(SessionOutputs) : LibDone(p, outcome, GetSessions(outcome))

\* getWindows for every outcome of its command, computed once.
GetWindowsOf == [outcome \in Outcomes(WindowOutputs) |-> GetWindows(outcome)]

LibGetWindowsDone ==
    \E p \in procs :
        /\ p.k = "getWindows"
        /\ \E outcome \in Outcomes(WindowOutputs) : LibDone(p, outcome, GetWindowsOf[outcome])

LibRunCommandDone ==
    \E p \in procs :
        /\ p.k = "runCommand"
        /\ \E outcome \in Outcomes(CommandOutputs) : LibDone(p, outcome, RunCommand(outcome))

LibNext ==
    \/ LibGetSessions
    \/ LibGetWindows
    \/ LibSwitchClient
    \/ LibKillSession
    \/ LibCreateSession
    \/ LibRenameSession
    \/ LibKillWindow
    \/ LibNewWindow
    \/ LibRenameWindow
    \/ LibGetSessionsDone
    \/ LibGetWindowsDone
    \/ LibRunCommandDone

InitLib == Init /\ revision = "lib"

SpecLib == InitLib /\ [][LibNext]_vars

----------------------------------------------------------------------------
(* tmux_sessions.tsx: TmuxSessions, the single-file session view *)

LoadedSessionLineTruthy(line) ==
    LET parts == Split(line, Sep)
    IN [name |-> Part(parts, 1),
        windowCount |-> OrZero(ParseInt(Part(parts, 2))),
        attached |-> Part(parts, 3) \notin {<<"0">>, <<>>, Undefined},
        created |-> Part(parts, 4),
        currentWindow |-> Part(parts, 5),
        paneCount |-> OrZero(ParseInt(Part(parts, 6))),
        lastAttached |-> OrZero(ParseInt(Part(parts, 7)))]

LoadedSessionLine(line) ==
    LET parts == Split(line, Sep)
        name == Part(parts, 1)
        windowCount == OrZero(ParseInt(Part(parts, 2)))
        attached == Part(parts, 3) = <<"1">>
        created == Part(parts, 4)
        currentWindow == Part(parts, 5)
        paneCount == OrZero(ParseInt(Part(parts, 6)))
        lastAttached == OrZero(ParseInt(Part(parts, 7)))
    IN [name |-> name,
        windowCount |-> windowCount,
        attached |-> attached,
        created |-> created,
        currentWindow |-> currentWindow,
        paneCount |-> paneCount,
        lastAttached |-> lastAttached]

CompareLoaded(a, b) ==
    IF a.attached # b.attached
    THEN (IF a.attached THEN -1 ELSE 1)
    ELSE b.lastAttached - a.lastAttached

\* The success branch of the exec callback: parsedSessions after its sort.
ParsedSessions(stdout) ==
    LET lines == FilterSelect(Split(Trim(stdout), NL))
        rs == [i \in 1..Len(lines) |-> LoadedSessionLine(lines[i])]
    IN Sort([p \in Elements(rs) \X Elements(rs) |-> CompareLoaded(p[1], p[2])], rs)

\* ParsedSessions of every listing the view can see, computed once.
ParsedSessionsOf == [o \in PolledOutputs |-> ParsedSessions(o)]

\* loadSessions(): exec is called whatever is already running.
LoadSessions == Exec(ListSessionsCmd, "loadSessions", "list-sessions", <<>>)

LoadSessionsAfter(p) == ExecAfter(p, ListSessionsCmd, "loadSessions", "list-sessions", <<>>)

LoadSessionsCallbackPatching(p, outcome) ==
    /\ IF outcome.error
       THEN sessions' = <<>>
       ELSE sessions' = ParsedSessionsOf[outcome.stdout]
                           \o SelectSeq(sessions, LAMBDA r :
                                  \A i \in 1..Len(ParsedSessionsOf[outcome.stdout]) :
                                      ParsedSessionsOf[outcome.stdout][i].name # r.name)
    /\ isLoading' = FALSE
    /\ held' = p.id
    /\ UNCHANGED toasts

LoadSessionsCallbackOnce(p, outcome) ==
    /\ IF isLoading
       THEN /\ sessions' = IF outcome.error THEN <<>> ELSE ParsedSessionsOf[outcome.stdout]
            /\ held' = p.id
       ELSE UNCHANGED <<sessions, held>>
    /\ isLoading' = FALSE
    /\ UNCHANGED toasts

\* The exec callback of loadSessions.
LoadSessionsCallback(p, outcome) ==
    /\ IF outcome.error
       THEN sessions' = <<>>
       ELSE sessions' = ParsedSessionsOf[outcome.stdout]
    /\ isLoading' = FALSE
    /\ held' = p.id
    /\ UNCHANGED toasts

Mount ==
    /\ revision = "sessions"
    /\ Did("Mount")
    /\ life = "created"
    /\ life' = "mounted"
    /\ LoadSessions
    /\ timer' = TRUE
    /\ UNCHANGED <<revision, tmux, ret, sessions, isLoading, held, windowVars, batches, toasts, form>>

\* setInterval(loadSessions, 5000)
SessionInterval == 5000

Tick ==
    /\ revision = "sessions"
    /\ Fired("Tick", SessionInterval)
    /\ timer
    /\ nexec < MaxExec
    /\ LoadSessions
    /\ UNCHANGED <<revision, tmux, ret, life, sessionVars, windowVars, batches, toasts, form>>

Refresh ==
    /\ revision = "sessions"
    /\ Did("Refresh")
    /\ life = "mounted"
    /\ form = NoForm
    /\ nexec < MaxExec
    /\ LoadSessions
    /\ UNCHANGED <<revision, tmux, ret, life, sessionVars, windowVars, batches, toasts, form>>

\* The callback of exec calls setSessions and setIsLoading whether or not the
\* view is still mounted: the cleanup of the effect clears the interval only.
LoadSessionsReturns(p, outcome) ==
    /\ p.k = "loadSessions"
    /\ Called("LoadSessionsDone", outcome)
    /\ Finish(p)
    /\ LoadSessionsCallback(p, outcome)
    /\ UNCHANGED <<revision, tmux, ret, life, timer, windowVars, batches, form>>

LoadSessionsDone ==
    \E p \in procs, outcome \in Outcomes(PolledOutputs) : LoadSessionsReturns(p, outcome)

SwitchToSession ==
    \E i \in 1..Len(sessions) :
        /\ revision = "sessions"
        /\ Did("SwitchToSession")
        /\ life = "mounted"
        /\ form = NoForm
        /\ nexec < MaxExec
        /\ Exec(SwitchClientCmd(sessions[i].name), "switchToSession", "switchClient",
                <<sessions[i].name>>)
        /\ UNCHANGED <<revision, tmux, ret, life, sessionVars, windowVars, batches, toasts, form>>

DeleteSessionUnasked(confirmed) ==
    \E i \in 1..Len(sessions) :
        /\ revision = "sessions"
        /\ life = "mounted"
        /\ form = NoForm
        /\ Did(IF confirmed THEN "DeleteSession" ELSE "DeleteSessionDeclined")
        /\ nexec < MaxExec
        /\ Exec(KillSessionCmd(sessions[i].name), "deleteSession", "killSession",
                <<sessions[i].name>>)
        /\ UNCHANGED <<revision, tmux, ret, life, sessionVars, windowVars, batches, toasts, form>>

\* deleteSession up to its await runCommand: confirmed is what confirmAlert
\* resolves with.
DeleteSessionAnswered(confirmed) ==
    \E i \in 1..Len(sessions) :
        /\ revision = "sessions"
        /\ life = "mounted"
        /\ form = NoForm
        /\ IF confirmed
           THEN /\ Did("DeleteSession")
                /\ nexec < MaxExec
                /\ Exec(KillSessionCmd(sessions[i].name), "deleteSession", "killSession",
                        <<sessions[i].name>>)
           ELSE /\ Did("DeleteSessionDeclined")
                /\ UNCHANGED <<procs, nexec>>
        /\ UNCHANGED <<revision, tmux, ret, life, sessionVars, windowVars, batches, toasts, form>>

DeleteSession == DeleteSessionAnswered(TRUE)

DeleteSessionDeclined == DeleteSessionAnswered(FALSE)

\* The continuation of switchToSession and deleteSession after await runCommand.
SessionActionDone(k, okTitle, errTitle) ==
    \E p \in procs, outcome \in Outcomes({<<>>}) :
        /\ p.k = k
        /\ Called(k, outcome)
        /\ IF RunCommand(outcome).status = "resolved"
           THEN /\ ShowToast("default", okTitle, NoMessage)
                /\ LoadSessionsAfter(p)
           ELSE /\ HandleError(errTitle, RunCommand(outcome).value)
                /\ Finish(p)
        /\ UNCHANGED <<revision, tmux, ret, life, sessionVars, windowVars, batches, form>>

SwitchToSessionDone ==
    SessionActionDone("switchToSession", "Switched to", "Failed to switch session")

DeleteSessionDone ==
    SessionActionDone("deleteSession", "Deleted session", "Failed to delete session")

\* push(<CreateSessionForm onCreate={loadSessions} />)
OpenCreateSession ==
    /\ revision = "sessions"
    /\ Did("OpenCreateSession")
    /\ life = "mounted"
    /\ form = NoForm
    /\ form' = [kind |-> "createSession", currentName |-> <<>>, windowId |-> <<>>]
    /\ UNCHANGED <<revision, tmux, procs, nexec, ret, life, sessionVars, windowVars, batches, toasts>>

\* values.directory?.trim() || "~"
DirectoryOrHome(directory) ==
    IF directory = Undefined \/ Trim(directory) = <<>> THEN <<"~">> ELSE Trim(directory)

\* CreateSessionForm.onSubmit up to its await.
CreateSessionSubmit ==
    \E valuesName \in FormNames, directory \in FormDirs :
        /\ form.kind = "createSession"
        /\ life = "mounted"
        /\ Submitted("CreateSessionSubmit", valuesName)
        /\ NoSubmission("createSessionForm")
        /\ LET name == Trim(valuesName)
               dir == DirectoryOrHome(directory)
           IN IF name = <<>>
              THEN /\ toasts.n < MaxToasts
                   /\ ShowToast("failure", "Session name is required", NoMessage)
                   /\ UNCHANGED <<procs, nexec>>
              ELSE /\ nexec < MaxExec
                   /\ ExecHolding(CreateSessionCmd(name, dir), "createSessionForm",
                                  "createSession", <<name, dir>>, directory)
                   /\ UNCHANGED toasts
        /\ UNCHANGED <<revision, tmux, ret, life, sessionVars, windowVars, batches, form>>

\* CreateSessionForm.onSubmit after await runCommand.
CreateSessionDone ==
    \E p \in procs, outcome \in Outcomes({<<>>}) :
        /\ p.k = "createSessionForm"
        /\ Called("CreateSessionDone", outcome)
        /\ IF RunCommand(outcome).status = "resolved"
           THEN /\ ShowToast("default", "Created session", NoMessage)
                /\ LoadSessionsAfter(p)
                /\ form' = NoForm
           ELSE /\ HandleError("Failed to create session", RunCommand(outcome).value)
                /\ Finish(p)
                /\ UNCHANGED form
        /\ UNCHANGED <<revision, tmux, ret, life, sessionVars, windowVars, batches>>

\* push(<RenameSessionForm currentName={session.name} onRename={loadSessions} />)
OpenRenameSession ==
    \E i \in 1..Len(sessions) :
        /\ revision = "sessions"
        /\ Did("OpenRenameSession")
        /\ life = "mounted"
        /\ form = NoForm
        /\ form' = [kind |-> "renameSession", currentName |-> sessions[i].name,
                    windowId |-> <<>>]
        /\ UNCHANGED <<revision, tmux, procs, nexec, ret, life, sessionVars, windowVars, batches,
                       toasts>>

\* RenameSessionForm.onSubmit up to its await: the name is trimmed and refused
\* when empty; nothing compares it with currentName.
RenameSessionSubmit ==
    \E valuesName \in FormNames :
        /\ form.kind = "renameSession"
        /\ life = "mounted"
        /\ Submitted("RenameSessionSubmit", valuesName)
        /\ NoSubmission("renameSessionForm")
        /\ LET newName == Trim(valuesName)
           IN IF newName = <<>>
              THEN /\ toasts.n < MaxToasts
                   /\ ShowToast("failure", "Name required", NoMessage)
                   /\ UNCHANGED <<procs, nexec>>
              ELSE /\ nexec < MaxExec
                   /\ Exec(RenameSessionCmd(form.currentName, newName), "renameSessionForm",
                           "renameSession", <<form.currentName, newName>>)
                   /\ UNCHANGED toasts
        /\ UNCHANGED <<revision, tmux, ret, life, sessionVars, windowVars, batches, form>>

\* RenameSessionForm.onSubmit after await runCommand.
RenameSessionDone ==
    \E p \in procs, outcome \in Outcomes({<<>>}) :
        /\ p.k = "renameSessionForm"
        /\ Called("RenameSessionDone", outcome)
        /\ IF RunCommand(outcome).status = "resolved"
           THEN /\ ShowToast("default", "Renamed session", NoMessage)
                /\ LoadSessionsAfter(p)
                /\ form' = NoForm
           ELSE /\ HandleError("Failed to rename", RunCommand(outcome).value)
                /\ Finish(p)
                /\ UNCHANGED form
        /\ UNCHANGED <<revision, tmux, ret, life, sessionVars, windowVars, batches>>

UnmountKeepingTimer ==
    /\ revision = "sessions"
    /\ Did("Unmount")
    /\ life = "mounted"
    /\ life' = "unmounted"
    /\ UNCHANGED <<revision, tmux, procs, nexec, ret, sessionVars, windowVars, batches, toasts, form>>

\* The cleanup of the effect: clearInterval(interval).
Unmount ==
    /\ revision = "sessions"
    /\ Did("Unmount")
    /\ life = "mounted"
    /\ life' = "unmounted"
    /\ timer' = FALSE
    /\ UNCHANGED <<revision, tmux, procs, nexec, ret, sessions, isLoading, held, windowVars,
                   batches, toasts, form>>

SessionsNext ==
    \/ OpenCreateSession
    \/ CreateSessionSubmit
    \/ CreateSessionDone
    \/ Mount
    \/ Tick
    \/ Refresh
    \/ LoadSessionsDone
    \/ SwitchToSession
    \/ DeleteSession
    \/ SwitchToSessionDone
    \/ DeleteSessionDone

InitSessions == Init /\ revision = "sessions"

SpecSessions == InitSessions /\ [][SessionsNext]_vars

\* The single-file view with its two forms.
SessionFormsNext ==
    \/ Mount
    \/ LoadSessionsDone
    \/ OpenCreateSession
    \/ CreateSessionSubmit
    \/ CreateSessionDone
    \/ OpenRenameSession
    \/ RenameSessionSubmit
    \/ RenameSessionDone

SpecSessionForms == InitSessions /\ [][SessionFormsNext]_vars

----------------------------------------------------------------------------
(* components/WindowList.tsx: the window view.  WindowList of                *)
(* tmux_sessions.tsx is the same view written with exec callbacks.           *)

WindowRevisions == {"windows", "components"}

\* getWindows for every outcome the view can see, computed once.
WindowsOf == [outcome \in Outcomes(PolledWindowOutputs) |-> GetWindows(outcome)]

\* The loadWindows that useCallback made for the session name.
LoadWindows(sessionName) ==
    Exec(ListWindowsCmd(sessionName), "loadWindows", "list-windows", <<sessionName>>)

LoadWindowsAfter(p) ==
    ExecAfter(p, ListWindowsCmd(sessionProp), "loadWindows", "list-windows", <<sessionProp>>)

\* loadWindows after await getWindows(sessionName).
LoadWindowsCallback(outcome) ==
    /\ IF WindowsOf[outcome].status = "resolved"
       THEN /\ windows' = WindowsOf[outcome].value
            /\ UNCHANGED toasts
       ELSE /\ HandleError("Error loading windows", WindowsOf[outcome].value)
            /\ UNCHANGED windows
    /\ winLoading' = FALSE

WinMount ==
    \E n \in {<<"a">>} :
        /\ revision \in WindowRevisions
        /\ Did("WinMount")
        /\ life = "created"
        /\ life' = "mounted"
        /\ sessionProp' = n
        /\ LoadWindows(n)
        /\ winTimer' = {n}
        /\ UNCHANGED <<revision, tmux, ret, sessionVars, windows, winLoading, batches, toasts, form>>

\* setInterval(loadWindows, 2000)
WindowInterval == 2000

WinTick ==
    /\ revision \in WindowRevisions
    /\ Fired("WinTick", WindowInterval)
    /\ nexec < MaxExec
    /\ \E n \in winTimer : LoadWindows(n)
    /\ UNCHANGED <<revision, tmux, ret, life, sessionVars, windowVars, batches, toasts, form>>

LoadWindowsDone ==
    \E p \in procs, outcome \in Outcomes(PolledWindowOutputs) :
        /\ p.k = "loadWindows"
        /\ Called("LoadWindowsDone", outcome)
        /\ Finish(p)
        /\ LoadWindowsCallback(outcome)
        /\ UNCHANGED <<revision, tmux, ret, life, sessionVars, sessionProp, winTimer, batches, form>>

HandleSwitch ==
    \E i \in 1..Len(windows) :
        /\ revision \in WindowRevisions
        /\ Did("HandleSwitch")
        /\ life = "mounted"
        /\ form = NoForm
        /\ nexec < MaxExec
        /\ Exec(SwitchClientCmd(windows[i].id), "handleSwitch", "switchClient",
                <<windows[i].id>>)
        /\ UNCHANGED <<revision, tmux, ret, life, sessionVars, windowVars, batches, toasts, form>>

\* handleDelete up to its await killWindow: confirmed is what confirmAlert
\* resolves with.
HandleDeleteAnswered(confirmed) ==
    \E i \in 1..Len(windows) :
        /\ revision \in WindowRevisions
        /\ life = "mounted"
        /\ form = NoForm
        /\ IF confirmed
           THEN /\ Did("HandleDelete")
                /\ nexec < MaxExec
                /\ Exec(KillWindowCmd(windows[i].id), "handleDelete", "killWindow",
                        <<windows[i].id>>)
           ELSE /\ Did("HandleDeleteDeclined")
                /\ UNCHANGED <<procs, nexec>>
        /\ UNCHANGED <<revision, tmux, ret, life, sessionVars, windowVars, batches, toasts, form>>

HandleDelete == HandleDeleteAnswered(TRUE)

HandleDeleteDeclined == HandleDeleteAnswered(FALSE)

WindowActionDoneRetrying(k, okTitle, errTitle) ==
    \E p \in procs, outcome \in Outcomes({<<>>}) :
        /\ p.k = k
        /\ Called(k, outcome)
        /\ IF RunCommand(outcome).status = "resolved"
           THEN /\ ShowToast("default", okTitle, NoMessage)
                /\ LoadWindowsAfter(p)
           ELSE /\ HandleError(errTitle, RunCommand(outcome).value)
                /\ IF p.ctx = <<>>
                   THEN /\ procs' = (procs \ {p}) \cup
                               {[p EXCEPT !.id = nexec + 1, !.ctx = <<"again">>]}
                        /\ nexec' = nexec + 1
                   ELSE Finish(p)
        /\ UNCHANGED <<revision, tmux, ret, life, sessionVars, windowVars, batches, form>>

\* The continuation of handleSwitch and handleDelete after the awaited command.
WindowActionDone(k, okTitle, errTitle) ==
    \E p \in procs, outcome \in Outcomes({<<>>}) :
        /\ p.k = k
        /\ Called(k, outcome)
        /\ IF RunCommand(outcome).status = "resolved"
           THEN /\ ShowToast("default", okTitle, NoMessage)
                /\ LoadWindowsAfter(p)
           ELSE /\ HandleError(errTitle, RunCommand(outcome).value)
                /\ Finish(p)
        /\ UNCHANGED <<revision, tmux, ret, life, sessionVars, windowVars, batches, form>>

HandleSwitchDone ==
    WindowActionDone("handleSwitch", "Switched to", "Failed to switch window")

HandleDeleteDone ==
    WindowActionDone("handleDelete", "Deleted window", "Failed to delete window")

\* push(<RenameWindowForm windowId={win.id} currentName={win.name} onRename={loadWindows} />)
OpenRenameWindow ==
    \E i \in 1..Len(windows) :
        /\ revision \in WindowRevisions
        /\ Did("OpenRenameWindow")
        /\ life = "mounted"
        /\ form = NoForm
        /\ form' = [kind |-> "renameWindow", currentName |-> windows[i].name,
                    windowId |-> windows[i].id]
        /\ UNCHANGED <<revision, tmux, procs, nexec, ret, life, sessionVars, windowVars, batches, toasts>>

RenameWindowUnchecked(valuesName) ==
    LET newName == Trim(valuesName)
    IN /\ nexec < MaxExec
       /\ Exec(RenameWindowCmd(form.windowId, newName), "renameWindowForm", "renameWindow",
               <<form.windowId, newName>>)
       /\ UNCHANGED <<toasts, form>>

\* tmux_sessions.tsx, RenameWindowForm.onSubmit up to its await.
RenameWindowOnSubmit(valuesName) ==
    LET newName == Trim(valuesName)
    IN IF newName = <<>>
       THEN /\ toasts.n < MaxToasts
            /\ ShowToast("failure", "Name required", NoMessage)
            /\ UNCHANGED <<procs, nexec, form>>
       ELSE /\ nexec < MaxExec
            /\ Exec(RenameWindowCmd(form.windowId, newName), "renameWindowForm",
                    "renameWindow", <<form.windowId, newName>>)
            /\ UNCHANGED <<toasts, form>>

\* components/forms/RenameWindow, onSubmit up to its await.
RenameWindowFormOnSubmit(valuesName) ==
    LET newName == Trim(valuesName)
    IN IF newName = <<>>
       THEN /\ toasts.n < MaxToasts
            /\ ShowToast("failure", "Name required", NoMessage)
            /\ UNCHANGED <<procs, nexec, form>>
       ELSE IF newName = form.currentName
       THEN /\ form' = NoForm
            /\ UNCHANGED <<procs, nexec, toasts>>
       ELSE /\ nexec < MaxExec
            /\ Exec(RenameWindowCmd(form.windowId, newName), "renameWindowForm",
                    "renameWindow", <<form.windowId, newName>>)
            /\ UNCHANGED <<toasts, form>>

RenameWindowSubmit ==
    \E valuesName \in FormNames :
        /\ form.kind = "renameWindow"
        /\ life = "mounted"
        /\ Submitted("RenameWindowSubmit", valuesName)
        /\ NoSubmission("renameWindowForm")
        /\ IF revision = "windows"
           THEN RenameWindowOnSubmit(valuesName)
           ELSE RenameWindowFormOnSubmit(valuesName)
        /\ UNCHANGED <<revision, tmux, ret, life, sessionVars, windowVars, batches>>

\* onSubmit of both rename forms after the awaited command.
RenameWindowDone ==
    \E p \in procs, outcome \in Outcomes({<<>>}) :
        /\ p.k = "renameWindowForm"
        /\ Called("RenameWindowDone", outcome)
        /\ IF RunCommand(outcome).status = "resolved"
           THEN /\ ShowToast("default", "Renamed window", NoMessage)
                /\ LoadWindowsAfter(p)
                /\ form' = NoForm
           ELSE /\ HandleError(IF revision = "windows" THEN "Failed to rename"
                                ELSE "Failed to rename window",
                                RunCommand(outcome).value)
                /\ Finish(p)
                /\ UNCHANGED form
        /\ UNCHANGED <<revision, tmux, ret, life, sessionVars, windowVars, batches>>

\* The cleanup of the effect: clearInterval(interval).
WinUnmount ==
    /\ revision \in WindowRevisions
    /\ Did("WinUnmount")
    /\ life = "mounted"
    /\ life' = "unmounted"
    /\ winTimer' = {}
    /\ UNCHANGED <<revision, tmux, procs, nexec, ret, sessionVars, sessionProp, windows,
                   winLoading, batches, toasts, form>>

\* The session names the host can hand to the view.
SessionProps == {<<"a">>, <<"b">>}

WinSessionChangedLeaking ==
    \E n \in SessionProps \ {sessionProp} :
        /\ revision \in WindowRevisions
        /\ Did("WinSessionChanged")
        /\ life = "mounted"
        /\ nexec < MaxExec
        /\ sessionProp' = n
        /\ winTimer' = winTimer \cup {n}
        /\ LoadWindows(n)
        /\ UNCHANGED <<revision, tmux, ret, life, sessionVars, windows, winLoading, batches,
                       toasts, form>>

\* The view is rendered with another sessionName: useCallback makes a new
\* loadWindows, so the cleanup of the effect runs, clearInterval(interval), and
\* then the effect again, loadWindows() and setInterval(loadWindows, 2000).
WinSessionChanged ==
    \E n \in SessionProps \ {sessionProp} :
        /\ revision \in WindowRevisions
        /\ Did("WinSessionChanged")
        /\ life = "mounted"
        /\ nexec < MaxExec
        /\ sessionProp' = n
        /\ winTimer' = (winTimer \ {sessionProp}) \cup {n}
        /\ LoadWindows(n)
        /\ UNCHANGED <<revision, tmux, ret, life, sessionVars, windows, winLoading, batches,
                       toasts, form>>

WindowsNext ==
    \/ WinMount
    \/ WinTick
    \/ LoadWindowsDone
    \/ HandleSwitch
    \/ HandleDelete
    \/ HandleSwitchDone
    \/ HandleDeleteDone
    \/ OpenRenameWindow
    \/ RenameWindowSubmit
    \/ RenameWindowDone

InitWindows == Init /\ revision \in WindowRevisions

SpecWindows == InitWindows /\ [][WindowsNext]_vars

----------------------------------------------------------------------------
(* The first revision of the session view: one listing of the names, then   *)
(* two commands for each session, joined by Promise.all.                    *)

NameOutputs == {Output(ls) : ls \in SeqsUpTo({<<"a">>}, MaxFirstNames)}
WindowNameOutputs == {<<"w", "\n">>}
DetailOutputs == {<<"1", ",", "7", ",", "w", ",", "3", "\n">>}

FirstListCmd == Tpl("tmux list-sessions 2>/dev/null | awk '{print $1}' | sed 's/://'")
FirstWindowsCmd(name) ==
    Tpl("tmux list-windows -t ") \o Arg(name) \o Tpl(" 2>/dev/null | awk '{print $2}'")
FirstDetailCmd(name) ==
    Tpl("tmux display-message -p -t ") \o Arg(name)
        \o Tpl(" \"#{session_attached},#{session_created},#{window_name},#{session_panes}\" 2>/dev/null")

\* .filter(s => s.length > 0)
NonEmpty(lines) == SelectSeq(lines, LAMBDA l : Len(l) > 0)

\* x || ''
OrEmpty(x) == IF x = Undefined THEN <<>> ELSE x

Unresolved(name) ==
    [ready |-> FALSE, name |-> name, windows |-> <<>>, attached |-> FALSE,
     created |-> <<>>, currentWindow |-> <<>>, paneCount |-> 0]

\* The value a session's promise resolves with.
FirstSessionInfo(name, windowList, outcome) ==
    LET details == Split(Trim(outcome.stdout), <<",">>)
        parsed == ~outcome.error /\ Trim(outcome.stdout) # <<>>
    IN [ready |-> TRUE,
        name |-> name,
        windows |-> windowList,
        attached |-> parsed /\ Part(details, 1) = <<"1">>,
        created |-> IF parsed THEN OrEmpty(Part(details, 2)) ELSE <<>>,
        currentWindow |-> IF parsed THEN OrEmpty(Part(details, 3)) ELSE <<>>,
        paneCount |-> IF parsed THEN OrZero(ParseInt(Part(details, 4))) ELSE 0]

\* A process of session i of the loadSessions call b.
FirstProc(cmd, k, name, b, i, windowList) ==
    [id |-> b, cmd |-> cmd, k |-> k, op |-> k, args |-> <<name>>,
     ctx |-> [batch |-> b, idx |-> i, windows |-> windowList]]

\* loadSessions(): setIsLoading(true), then exec.
FirstLoadSessions ==
    /\ isLoading' = TRUE
    /\ Exec(FirstListCmd, "firstList", "list-sessions", <<>>)

FirstMount ==
    /\ revision = "first"
    /\ Did("FirstMount")
    /\ life = "created"
    /\ life' = "mounted"
    /\ FirstLoadSessions
    /\ timer' = TRUE
    /\ UNCHANGED <<revision, tmux, ret, sessions, held, windowVars, batches, toasts, form>>

\* setInterval(loadSessions, 10000)
FirstInterval == 10000

FirstTick ==
    /\ revision = "first"
    /\ Fired("FirstTick", FirstInterval)
    /\ timer
    /\ nexec < MaxExec
    /\ FirstLoadSessions
    /\ UNCHANGED <<revision, tmux, ret, life, sessions, timer, held, windowVars, batches,
                   toasts, form>>

\* The error branch of the callback of the names listing.
FirstListFailed ==
    /\ ShowToast("default", "Failed to load TMUX sessions",
                 <<"Make sure TMUX is installed and running">>)
    /\ isLoading' = FALSE
    /\ UNCHANGED sessions

\* The callback of the names listing.
FirstListDone ==
    \E p \in procs, outcome \in Outcomes(NameOutputs) :
        /\ p.k = "firstList"
        /\ Called("FirstListDone", outcome)
        /\ IF outcome.error
           THEN /\ FirstListFailed
                /\ Finish(p)
                /\ UNCHANGED <<held, batches>>
           ELSE LET sessionNames == NonEmpty(Split(Trim(outcome.stdout), NL))
                IN IF sessionNames = <<>>
                   THEN /\ sessions' = <<>>
                        /\ isLoading' = FALSE
                        /\ held' = p.id
                        /\ Finish(p)
                        /\ UNCHANGED <<batches, toasts>>
                   ELSE /\ procs' = (procs \ {p}) \cup
                               {FirstProc(FirstWindowsCmd(sessionNames[i]),
                                          "firstWindows", sessionNames[i], p.id, i, <<>>) :
                                   i \in 1..Len(sessionNames)}
                        /\ nexec' = nexec + Len(sessionNames)
                        /\ batches' = batches \cup
                               {[id |-> p.id,
                                 infos |-> [i \in 1..Len(sessionNames) |->
                                               Unresolved(sessionNames[i])]]}
                        /\ UNCHANGED <<sessions, isLoading, held, toasts>>
        /\ UNCHANGED <<revision, tmux, ret, life, timer, windowVars, form>>

\* The callback of a session's list-windows: it starts display-message.
FirstWindowsDone ==
    \E p \in procs, outcome \in Outcomes(WindowNameOutputs) :
        /\ p.k = "firstWindows"
        /\ Called("FirstWindowsDone", outcome)
        /\ LET windowList == IF outcome.error THEN <<>>
                             ELSE NonEmpty(Split(Trim(outcome.stdout), NL))
           IN /\ procs' = (procs \ {p}) \cup
                     {FirstProc(FirstDetailCmd(p.args[1]), "firstDetail",
                                p.args[1], p.ctx.batch, p.ctx.idx, windowList)}
              /\ nexec' = nexec + 1
        /\ UNCHANGED <<revision, tmux, ret, life, sessionVars, windowVars, batches, toasts, form>>

StripReady(info) ==
    [name |-> info.name, windows |-> info.windows, attached |-> info.attached,
     created |-> info.created, currentWindow |-> info.currentWindow,
     paneCount |-> info.paneCount]

\* The callback of a session's display-message resolves the session's
\* promise; Promise.all resolves with the last of them.
FirstDetailDone ==
    \E p \in procs, outcome \in Outcomes(DetailOutputs), b \in batches :
        /\ p.k = "firstDetail"
        /\ Called("FirstDetailDone", outcome)
        /\ b.id = p.ctx.batch
        /\ Finish(p)
        /\ LET infos == [b.infos EXCEPT ![p.ctx.idx] =
                             FirstSessionInfo(p.args[1], p.ctx.windows, outcome)]
           IN IF \A i \in 1..Len(infos) : infos[i].ready
              THEN /\ sessions' = [i \in 1..Len(infos) |-> StripReady(infos[i])]
                   /\ isLoading' = FALSE
                   /\ held' = b.id
                   /\ batches' = batches \ {b}
              ELSE /\ batches' = (batches \ {b}) \cup {[b EXCEPT !.infos = infos]}
                   /\ UNCHANGED <<sessions, isLoading, held>>
        /\ UNCHANGED <<revision, tmux, ret, life, timer, windowVars, toasts, form>>

\* renameWindow: the target is the session and the name of the window.
FirstRenameWindowCmd(sessionName, oldName, newName) ==
    Tpl("tmux rename-window -t ") \o Arg(sessionName) \o Tpl(":") \o Arg(oldName)
        \o Tpl(" ") \o Arg(newName)

\* The windows on display: window j of session i. The forms are pushed from
\* the section of a session that has windows.
FirstWindows ==
    UNION {{<<i, j>> : j \in 1..Len(sessions[i].windows)} : i \in 1..Len(sessions)}

\* A listing of n sessions makes 2n + 1 calls of exec; the forms make theirs
\* after it.
FirstExecLimit == MaxExec + 3 * MaxFirstNames

\* push(<RenameWindowForm sessionName={session.name} currentName={window}
\* onRename={loadSessions} />)
FirstOpenRenameWindow ==
    \E w \in FirstWindows :
        /\ revision = "first"
        /\ Did("FirstOpenRenameWindow")
        /\ form = NoForm
        /\ nexec < FirstExecLimit
        /\ form' = [kind |-> "firstRenameWindow", sessionName |-> sessions[w[1]].name,
                    currentName |-> sessions[w[1]].windows[w[2]]]
        /\ UNCHANGED <<revision, tmux, procs, nexec, ret, life, sessionVars, windowVars, batches,
                       toasts>>

\* push(<CreateWindowForm sessionName={session.name} onCreate={loadSessions} />)
FirstOpenCreateWindow ==
    \E w \in FirstWindows :
        /\ revision = "first"
        /\ Did("FirstOpenCreateWindow")
        /\ form = NoForm
        /\ nexec < FirstExecLimit
        /\ form' = [kind |-> "firstCreateWindow", sessionName |-> sessions[w[1]].name]
        /\ UNCHANGED <<revision, tmux, procs, nexec, ret, life, sessionVars, windowVars, batches,
                       toasts>>

\* RenameWindowForm.onSubmit: renameWindow(...) starts the command, and pop()
\* follows at once. The names submitted are shorter than the 50 characters
\* the form refuses.
FirstRenameWindowSubmit ==
    \E valuesName \in FormNames :
        /\ revision = "first"
        /\ form.kind = "firstRenameWindow"
        /\ Submitted("FirstRenameWindowSubmit", valuesName)
        /\ LET newName == Trim(valuesName)
               sessionName == form.sessionName
               currentName == form.currentName
           IN IF newName = <<>>
              THEN /\ toasts.n < MaxToasts
                   /\ ShowToast("default", "New window name is required", NoMessage)
                   /\ UNCHANGED <<procs, nexec, form>>
              ELSE IF newName = currentName
              THEN /\ toasts.n < MaxToasts
                   /\ ShowToast("default", "New name must be different from current name",
                                NoMessage)
                   /\ UNCHANGED <<procs, nexec, form>>
              ELSE /\ nexec < FirstExecLimit
                   /\ Exec(FirstRenameWindowCmd(sessionName, currentName, newName),
                           "firstRenameWindow", "renameWindow",
                           <<sessionName \o <<":">> \o currentName, newName>>)
                   /\ form' = NoForm
                   /\ UNCHANGED toasts
        /\ UNCHANGED <<revision, tmux, ret, life, sessionVars, windowVars, batches>>

\* The callback of renameWindow: onComplete is loadSessions.
FirstRenameWindowDone ==
    \E p \in procs, outcome \in Outcomes({<<>>}) :
        /\ p.k = "firstRenameWindow"
        /\ Called("FirstRenameWindowDone", outcome)
        /\ IF outcome.error
           THEN /\ ShowToast("default", "Failed to rename window", outcome.message)
                /\ Finish(p)
                /\ UNCHANGED isLoading
           ELSE /\ ShowToast("default", "Renamed window to", NoMessage)
                /\ isLoading' = TRUE
                /\ ExecAfter(p, FirstListCmd, "firstList", "list-sessions", <<>>)
        /\ UNCHANGED <<revision, tmux, ret, life, sessions, timer, held, windowVars, batches, form>>

\* CreateWindowForm.onSubmit: createNewWindow(sessionName, windowName), then
\* onCreate(), which is loadSessions, then pop().
FirstCreateWindowSubmit ==
    \E valuesName \in FormNames :
        /\ revision = "first"
        /\ form.kind = "firstCreateWindow"
        /\ Submitted("FirstCreateWindowSubmit", valuesName)
        /\ LET windowName == Trim(valuesName)
               sessionName == form.sessionName
           IN IF windowName = <<>>
              THEN /\ toasts.n < MaxToasts
                   /\ ShowToast("default", "Window name is required", NoMessage)
                   /\ UNCHANGED <<procs, nexec, isLoading, form>>
              ELSE /\ nexec < FirstExecLimit
                   /\ procs' = procs \cup
                          {Proc(NewWindowCmd(sessionName, windowName), "firstCreateWindow",
                                "newWindow", <<sessionName, windowName>>),
                           [Proc(FirstListCmd, "firstList", "list-sessions", <<>>)
                               EXCEPT !.id = nexec + 2]}
                   /\ nexec' = nexec + 2
                   /\ isLoading' = TRUE
                   /\ form' = NoForm
                   /\ UNCHANGED toasts
        /\ UNCHANGED <<revision, tmux, ret, life, sessions, timer, held, windowVars, batches>>

\* The callback of createNewWindow: a toast.
FirstCreateWindowDone ==
    \E p \in procs, outcome \in Outcomes({<<>>}) :
        /\ p.k = "firstCreateWindow"
        /\ Called("FirstCreateWindowDone", outcome)
        /\ Finish(p)
        /\ IF outcome.error
           THEN ShowToast("default", "Failed to create window", outcome.message)
           ELSE ShowToast("default", "Created window", NoMessage)
        /\ UNCHANGED <<revision, tmux, ret, life, sessionVars, windowVars, batches, form>>

FirstNext ==
    \/ FirstMount
    \/ FirstTick
    \/ FirstListDone
    \/ FirstWindowsDone
    \/ FirstDetailDone
    \/ FirstOpenRenameWindow
    \/ FirstOpenCreateWindow
    \/ FirstRenameWindowSubmit
    \/ FirstRenameWindowDone
    \/ FirstCreateWindowSubmit
    \/ FirstCreateWindowDone

InitFirst == Init /\ revision = "first"

SpecFirst == InitFirst /\ [][FirstNext]_vars

----------------------------------------------------------------------------
(* The second revision of the session view (part_001): one listing of the    *)
(* names, then one display-message for each session, joined by Promise.all.  *)

SecondDetailOutputs ==
    {<<"1", ",", "7", ",", "w", ",", "3", ",", "2", "\n">>,
     <<"0", ",", "7", ",", "w", ",", "3", ",", "2", "\n">>}

SecondDetailCmd(name) ==
    Tpl("tmux display-message -p -t ") \o Arg(name)
        \o Tpl(" \"#{session_attached},#{session_created},#{window_name},#{session_panes},#{session_windows}\" 2>/dev/null")

SecondUnresolved(name) ==
    [ready |-> FALSE, name |-> name, windowCount |-> 0, attached |-> FALSE,
     created |-> <<>>, currentWindow |-> <<>>, paneCount |-> 0]

\* The value a session's promise resolves with.
SecondSessionInfo(name, outcome) ==
    LET details == Split(Trim(outcome.stdout), <<",">>)
        parsed == ~outcome.error /\ Trim(outcome.stdout) # <<>>
    IN [ready |-> TRUE,
        name |-> name,
        windowCount |-> IF parsed THEN OrZero(ParseInt(Part(details, 5))) ELSE 0,
        attached |-> parsed /\ Part(details, 1) = <<"1">>,
        created |-> IF parsed THEN OrEmpty(Part(details, 2)) ELSE <<>>,
        currentWindow |-> IF parsed THEN OrEmpty(Part(details, 3)) ELSE <<>>,
        paneCount |-> IF parsed THEN OrZero(ParseInt(Part(details, 4))) ELSE 0]

\* loadSessions(): setIsLoading(true), then exec.
SecondLoadSessions ==
    /\ isLoading' = TRUE
    /\ Exec(FirstListCmd, "secondList", "list-sessions", <<>>)

SecondMount ==
    /\ revision = "second"
    /\ Did("SecondMount")
    /\ life = "created"
    /\ life' = "mounted"
    /\ SecondLoadSessions
    /\ timer' = TRUE
    /\ UNCHANGED <<revision, tmux, ret, sessions, held, windowVars, batches, toasts, form>>

\* setInterval(loadSessions, 10000)
SecondInterval == 10000

SecondTick ==
    /\ revision = "second"
    /\ Fired("SecondTick", SecondInterval)
    /\ timer
    /\ nexec < MaxExec
    /\ SecondLoadSessions
    /\ UNCHANGED <<revision, tmux, ret, life, sessions, timer, held, windowVars, batches,
                   toasts, form>>

\* The Refresh action: onAction={loadSessions}.
SecondRefresh ==
    /\ revision = "second"
    /\ Did("SecondRefresh")
    /\ life = "mounted"
    /\ nexec < MaxExec
    /\ SecondLoadSessions
    /\ UNCHANGED <<revision, tmux, ret, life, sessions, timer, held, windowVars, batches,
                   toasts, form>>

\* The callback of the names listing.
SecondListDone ==
    \E p \in procs, outcome \in Outcomes(NameOutputs) :
        /\ p.k = "secondList"
        /\ Called("SecondListDone", outcome)
        /\ IF outcome.error
           THEN /\ sessions' = <<>>
                /\ isLoading' = FALSE
                /\ held' = p.id
                /\ Finish(p)
                /\ UNCHANGED batches
           ELSE LET sessionNames == NonEmpty(Split(Trim(outcome.stdout), NL))
                IN IF sessionNames = <<>>
                   THEN /\ sessions' = <<>>
                        /\ isLoading' = FALSE
                        /\ held' = p.id
                        /\ Finish(p)
                        /\ UNCHANGED batches
                   ELSE /\ procs' = (procs \ {p}) \cup
                               {FirstProc(SecondDetailCmd(sessionNames[i]),
                                          "secondDetail", sessionNames[i], p.id, i, <<>>) :
                                   i \in 1..Len(sessionNames)}
                        /\ nexec' = nexec + Len(sessionNames)
                        /\ batches' = batches \cup
                               {[id |-> p.id,
                                 infos |-> [i \in 1..Len(sessionNames) |->
                                               SecondUnresolved(sessionNames[i])]]}
                        /\ UNCHANGED <<sessions, isLoading, held>>
        /\ UNCHANGED <<revision, tmux, ret, life, timer, windowVars, toasts, form>>

\* The callback of a session's display-message resolves the session's
\* promise; Promise.all resolves with the last of them.
SecondDetailDone ==
    \E p \in procs, outcome \in Outcomes(SecondDetailOutputs), b \in batches :
        /\ p.k = "secondDetail"
        /\ Called("SecondDetailDone", outcome)
        /\ b.id = p.ctx.batch
        /\ Finish(p)
        /\ LET infos == [b.infos EXCEPT ![p.ctx.idx] = SecondSessionInfo(p.args[1], outcome)]
           IN IF \A i \in 1..Len(infos) : infos[i].ready
              THEN /\ sessions' = [i \in 1..Len(infos) |->
                                      [f \in DOMAIN infos[i] \ {"ready"} |-> infos[i][f]]]
                   /\ isLoading' = FALSE
                   /\ held' = b.id
                   /\ batches' = batches \ {b}
              ELSE /\ batches' = (batches \ {b}) \cup {[b EXCEPT !.infos = infos]}
                   /\ UNCHANGED <<sessions, isLoading, held>>
        /\ UNCHANGED <<revision, tmux, ret, life, timer, windowVars, toasts, form>>

\* switchToSession up to its await; two listings of n sessions have made
\* n + 1 calls of exec each.
SecondSwitchToSession ==
    \E i \in 1..Len(sessions) :
        /\ revision = "second"
        /\ Did("SecondSwitchToSession")
        /\ life = "mounted"
        /\ nexec < MaxExec + 2 * MaxFirstNames
        /\ Exec(SwitchClientCmd(sessions[i].name), "secondSwitch", "switchClient",
                <<sessions[i].name>>)
        /\ UNCHANGED <<revision, tmux, ret, life, sessionVars, windowVars, batches, toasts, form>>

\* switchToSession after await runCommand: a toast, and no loadSessions.
SecondSwitchToSessionDone ==
    \E p \in procs, outcome \in Outcomes({<<>>}) :
        /\ p.k = "secondSwitch"
        /\ Called("secondSwitch", outcome)
        /\ Finish(p)
        /\ IF RunCommand(outcome).status = "resolved"
           THEN ShowToast("default", "Switched to session", NoMessage)
           ELSE HandleError("Failed to switch session", RunCommand(outcome).value)
        /\ UNCHANGED <<revision, tmux, ret, life, sessionVars, windowVars, batches, form>>

SecondNext ==
    \/ SecondMount
    \/ SecondTick
    \/ SecondRefresh
    \/ SecondListDone
    \/ SecondDetailDone
    \/ SecondSwitchToSession
    \/ SecondSwitchToSessionDone

InitSecond == Init /\ revision = "second"

SpecSecond == InitSecond /\ [][SecondNext]_vars

----------------------------------------------------------------------------
(* The parsers of the listing output, applied to a text.  A text is a      *)
(* sequence of lines and a line a sequence of fields; the multiplexer       *)
(* joins the fields with the sentinel and ends every line with a newline.   *)

\* tmux_sessions.tsx, WindowList.loadWindows: the success branch of its callback.
LoadedWindowLine(line) ==
    LET parts == Split(line, Sep)
    IN [id |-> Part(parts, 1),
        index |-> Part(parts, 2),
        name |-> Part(parts, 3),
        active |-> Part(parts, 4) = <<"1">>,
        layout |-> Part(parts, 5)]

LoadedWindows(stdout) ==
    LET lines == FilterSelect(Split(Trim(stdout), NL))
    IN [i \in 1..Len(lines) |-> LoadedWindowLine(lines[i])]

\* part_001, WindowList.loadWindows: the success branch of its callback.  The
\* format of its listing command joins the fields with a comma.
SecondWindowLine(line) ==
    LET parts == Split(line, <<",">>)
    IN [id |-> Part(parts, 1),
        index |-> Part(parts, 2),
        name |-> Part(parts, 3),
        active |-> Part(parts, 4) = <<"1">>,
        layout |-> Part(parts, 5)]

SecondWindows(stdout) ==
    LET lines == NonEmpty(Split(Trim(stdout), NL))
    IN [i \in 1..Len(lines) |-> SecondWindowLine(lines[i])]

WebLine ==
    << <<"w", "e", "b">>, <<"2">>, <<"1">>,
       <<"1", "7", "0", "0", "0", "0", "0", "0", "0", "0">>,
       <<"e", "d", "i", "t", "o", "r">>, <<"3">>,
       <<"1", "7", "0", "0", "0", "0", "3", "6", "0", "0">> >>

InfraLine ==
    << <<"i", "n", "f", "r", "a">>, <<"1">>, <<"0">>,
       <<"1", "6", "9", "9", "0", "0", "0", "0", "0", "0">>,
       <<"m", "a", "i", "n">>, <<"1">>,
       <<"1", "6", "9", "9", "0", "0", "0", "1", "0", "0">> >>

\* Detached sessions last attached at the same time.
TieLine(name) == <<name, <<"1">>, <<"0">>, <<"7">>, <<"w">>, <<"1">>, <<"5", "0", "0">>>>

\* A line of whitespace.
BlankLine == << <<" ", "\t">> >>

BaseLine == << <<"a">>, <<"2">>, <<"1">>, <<"7">>, <<"w">>, <<"3">>, <<"5", "0", "0">> >>

BaseWindowLine == << <<"@", "1">>, <<"0">>, <<"a">>, <<"1">>, <<"L">> >>

\* What the multiplexer, or anything in its place, may put into a numeric
\* and into a boolean field.
NumericTexts == {<<>>, <<"x">>, <<"2", "x">>, <<"-", "3">>, <<"0">>, <<"4">>}
BooleanTexts == {<<"1">>, <<"0">>, <<>>, <<"2">>, <<"1", "1">>, <<"t", "r", "u", "e">>}

\* One field of the line replaced, or the line cut short.
SessionFieldLines ==
    {[BaseLine EXCEPT ![i] = t] : i \in {2, 6, 7}, t \in NumericTexts}
        \cup {[BaseLine EXCEPT ![3] = t] : t \in BooleanTexts}
        \cup {SubSeq(BaseLine, 1, k) : k \in 1..6}

WindowFieldLines ==
    {[BaseWindowLine EXCEPT ![4] = t] : t \in BooleanTexts}
        \cup {SubSeq(BaseWindowLine, 1, k) : k \in 1..4}

OrderedSessionLines == {WebLine, InfraLine, TieLine(<<"a">>), TieLine(<<"b">>), BlankLine}

\* Windows listed against their index and against their name.
OrderedWindowLines ==
    {<< <<"@", "1">>, <<"1">>, <<"b">>, <<"0">>, <<"L">> >>,
     << <<"@", "2">>, <<"0">>, <<"a">>, <<"1">>, <<"L">> >>,
     BlankLine}

\* Names with a comma and with a single pipe character.
PunctuatedNames == {<<"a", ",", "b">>, <<"a", "|", "b">>}

SessionTexts ==
    {<<l>> : l \in SessionFieldLines} \cup SeqsUpTo(OrderedSessionLines, MaxLines)
        \cup {<<[BaseLine EXCEPT ![1] = n]>> : n \in PunctuatedNames}

WindowTexts ==
    {<<l>> : l \in WindowFieldLines} \cup SeqsUpTo(OrderedWindowLines, MaxLines)
        \cup {<<[BaseWindowLine EXCEPT ![3] = n]>> : n \in PunctuatedNames}

\* stdout of the listing command for a text.
TextOf(text) == Output([i \in 1..Len(text) |-> Join(text[i], Sep)])

ParseApply(act, op, text, r) ==
    /\ step' = [act |-> act, error |-> FALSE, value |-> text, after |-> 0]
    /\ ret' = [op |-> op, status |-> r.status, value |-> r.value, err |-> FALSE]
    /\ UNCHANGED <<revision, tmux, procs, nexec, viewVars>>

ParseIdle == revision = "parse" /\ ret = NoRet

\* await getSessions() when the listing command printed the text.
ParseGetSessions ==
    /\ ParseIdle
    /\ \E text \in SessionTexts :
           ParseApply("ParseGetSessions", "getSessions", text, GetSessions(Success(TextOf(text))))

\* The callback of loadSessions when the listing command printed the text.
ParseLoadSessions ==
    /\ ParseIdle
    /\ \E text \in SessionTexts :
           ParseApply("ParseLoadSessions", "loadSessions", text,
                      [status |-> "resolved", value |-> ParsedSessions(TextOf(text))])

ParseGetWindows ==
    /\ ParseIdle
    /\ \E text \in WindowTexts :
           ParseApply("ParseGetWindows", "getWindows", text, GetWindows(Success(TextOf(text))))

ParseLoadWindows ==
    /\ ParseIdle
    /\ \E text \in WindowTexts :
           ParseApply("ParseLoadWindows", "loadWindows", text,
                      [status |-> "resolved", value |-> LoadedWindows(TextOf(text))])

\* The callback of loadWindows of part_001 when the listing command printed
\* the fields of the text joined with a comma.
ParseSecondWindows ==
    /\ ParseIdle
    /\ \E text \in WindowTexts :
           ParseApply("ParseSecondWindows", "secondWindows", text,
                      [status |-> "resolved",
                       value |-> SecondWindows(
                                    Output([i \in 1..Len(text) |-> Join(text[i], <<",">>)]))])

\* A second session listing while the multiplexer prints the same text.
ParseSessionsAgain ==
    /\ revision = "parse"
    /\ step.act \in {"ParseGetSessions", "ParseLoadSessions"}
    /\ \/ ParseApply("ParseSessionsAgain", "getSessions", step.value,
                     GetSessions(Success(TextOf(step.value))))
       \/ ParseApply("ParseSessionsAgain", "loadSessions", step.value,
                     [status |-> "resolved", value |-> ParsedSessions(TextOf(step.value))])

ParseNext ==
    \/ ParseGetSessions
    \/ ParseLoadSessions
    \/ ParseGetWindows
    \/ ParseLoadWindows
    \/ ParseSecondWindows
    \/ ParseSessionsAgain

InitParse == Init /\ revision = "parse"

SpecParse == InitParse /\ [][ParseNext]_vars

----------------------------------------------------------------------------
(* The mutations of lib/tmux, called directly and by the views.  The views  *)
(* list on mount and after a mutation that succeeded; their timers and the  *)
(* manual refresh start the same listing and are left to the other          *)
(* specifications of the views.                                             *)

InitMutations == Init /\ revision \in {"lib", "sessions"} \cup WindowRevisions

MutationsNext ==
    \/ LibNext
    \/ OpenCreateSession
    \/ CreateSessionSubmit
    \/ CreateSessionDone
    \/ Mount
    \/ LoadSessionsDone
    \/ SwitchToSession
    \/ DeleteSession
    \/ SwitchToSessionDone
    \/ DeleteSessionDone
    \/ WinMount
    \/ LoadWindowsDone
    \/ HandleSwitch
    \/ HandleDelete
    \/ HandleSwitchDone
    \/ HandleDeleteDone
    \/ OpenRenameWindow
    \/ RenameWindowSubmit
    \/ RenameWindowDone

SpecMutations == InitMutations /\ [][MutationsNext]_vars

----------------------------------------------------------------------------
(* The two list views, without the forms they push, with the events the user *)
(* and the host send them: a declined confirmation and the teardown of the    *)
(* view.                                                                      *)

InitViews == Init /\ revision \in {"sessions"} \cup WindowRevisions

ViewsNext ==
    \/ Mount
    \/ Tick
    \/ Refresh
    \/ LoadSessionsDone
    \/ SwitchToSession
    \/ SwitchToSessionDone
    \/ DeleteSession
    \/ DeleteSessionDeclined
    \/ DeleteSessionDone
    \/ Unmount
    \/ WinMount
    \/ WinTick
    \/ LoadWindowsDone
    \/ HandleSwitch
    \/ HandleSwitchDone
    \/ HandleDelete
    \/ HandleDeleteDeclined
    \/ HandleDeleteDone
    \/ WinUnmount
    \/ WinSessionChanged

SpecViews == InitViews /\ [][ViewsNext]_vars

----------------------------------------------------------------------------
(* The session view against a tmux server whose state changes: a listing      *)
(* started after the last change reports the state of the server, one started *)
(* before it reports any state of the server.                                 *)

\* The states of the server: none runs, it has no session, or it has two
\* that it lists the detached one first.
ServerStates ==
    {Failure(<<"no server running">>), Success(<<>>)} \cup
    {Success(o) : o \in {x \in PolledOutputs :
                            /\ Len(ParsedSessionsOf[x]) = 2
                            /\ ParsedSessionsOf[x][1].attached
                            /\ ParsedSessionsOf[x][1].name = <<"a">>
                            /\ IndexOf(x, <<"a">>) > IndexOf(x, <<"b">>)}}

\* The state of the server changes, while the counter of calls is below its
\* bound.
ServerChanges ==
    \E o \in ServerStates :
        /\ revision = "sessions"
        /\ o # tmux.outcome
        /\ nexec < MaxExec
        /\ Did("ServerChanges")
        /\ tmux' = [outcome |-> o, since |-> nexec]
        /\ UNCHANGED <<revision, procs, nexec, ret, viewVars>>

\* The callback of a listing runs: what exec hands it is a state of the
\* server, the present one when the listing was started after the last change.
ListingReturns ==
    \E p \in procs, o \in ServerStates :
        /\ p.id > tmux.since => o = tmux.outcome
        /\ LoadSessionsReturns(p, o)

\* The ticks of setInterval after the counter of calls has reached its bound:
\* the listing takes the last number again, once the listing that had it has
\* returned.
TickAtBound ==
    /\ revision = "sessions"
    /\ Fired("Tick", SessionInterval)
    /\ timer
    /\ nexec >= MaxExec
    /\ \A p \in procs : p.k = "loadSessions" => p.id # nexec
    /\ procs' = procs \cup
           {[Proc(ListSessionsCmd, "loadSessions", "list-sessions", <<>>) EXCEPT !.id = nexec]}
    /\ nexec' = nexec
    /\ UNCHANGED <<revision, tmux, ret, life, sessionVars, windowVars, batches, toasts, form>>

InitServer == Init /\ revision = "sessions"

ServerNext ==
    \/ Mount
    \/ Tick
    \/ TickAtBound
    \/ Refresh
    \/ ListingReturns
    \/ SwitchToSession
    \/ SwitchToSessionDone
    \/ DeleteSession
    \/ DeleteSessionDone
    \/ ServerChanges

\* The effect of the view runs, the timer ticks, and while a listing is
\* running one returns.
SpecServer ==
    /\ InitServer
    /\ [][ServerNext]_vars
    /\ WF_vars(Mount)
    /\ WF_vars(Tick)
    /\ WF_vars(TickAtBound)
    /\ WF_vars(ListingReturns)

----------------------------------------------------------------------------
(* components/forms/CreateSession: the form with a text field for the     *)
(* working directory and the form with a dropdown of path suggestions.    *)

\* The directories the suggestion command prints, and a blank line.
SuggestionLines == {<<"/", "a">>, <<" ">>}
SuggestionOutputs == {Output(ls) : ls \in SeqsUpTo(SuggestionLines, MaxLines + 1)}
SearchTexts == {<<"a">>}

PathSuggestionsCmd(query) ==
    Tpl("fd -t d . ~ | fzf -f \"") \o Arg(query) \o Tpl("\" | head -n 20")

\* getPathSuggestions after await runCommand: the path of each suggestion,
\* stdout.trim().split("\n").filter(Boolean); [] when the command fails.
GetPathSuggestions(outcome) ==
    IF outcome.error THEN <<>>
    ELSE SelectSeq(Split(Trim(outcome.stdout), NL), LAMBDA dir : dir # <<>>)

\* The values of the items of the dropdown.
DropdownValues == {<<"~">>} \cup {form.suggestions[i] : i \in 1..Len(form.suggestions)}

\* String(values.directory || "~").trim()
DropdownDirectory(directory) ==
    IF directory = Undefined \/ directory = <<>> THEN <<"~">> ELSE Trim(directory)

\* The form is pushed; its effect calls loadSuggestions(""), which returns []
\* without a command.
OpenCreateSessionForm ==
    \E kind \in {"createSessionText", "createSessionDropdown"} :
        /\ revision = "components"
        /\ Did("OpenCreateSessionForm")
        /\ form = NoForm
        /\ form' = [kind |-> kind, currentName |-> <<>>, suggestions |-> <<>>]
        /\ UNCHANGED <<revision, tmux, procs, nexec, ret, life, sessionVars, windowVars, batches,
                       toasts>>

\* handleSearchTextChange(text): loadSuggestions(text) up to its await.
SearchTextChange ==
    \E query \in SearchTexts :
        /\ form.kind = "createSessionDropdown"
        /\ Submitted("SearchTextChange", query)
        /\ NoSubmission("loadSuggestions")
        /\ nexec < MaxExec
        /\ Exec(PathSuggestionsCmd(query), "loadSuggestions", "fd", <<query>>)
        /\ UNCHANGED <<revision, tmux, ret, life, sessionVars, windowVars, batches, toasts, form>>

\* loadSuggestions after await getPathSuggestions(query): setSuggestions.
LoadSuggestionsDone ==
    \E p \in procs, outcome \in Outcomes(SuggestionOutputs) :
        /\ p.k = "loadSuggestions"
        /\ Called("LoadSuggestionsDone", outcome)
        /\ Finish(p)
        /\ form' = IF form.kind = "createSessionDropdown"
                   THEN [form EXCEPT !.suggestions = GetPathSuggestions(outcome)]
                   ELSE form
        /\ UNCHANGED <<revision, tmux, ret, life, sessionVars, windowVars, batches, toasts>>

\* CreateSessionForm.onSubmit of either form up to its await.
CreateSessionFormSubmit ==
    /\ form.kind \in {"createSessionText", "createSessionDropdown"}
    /\ \E valuesName \in FormNames,
          directory \in IF form.kind = "createSessionText" THEN FormDirs ELSE DropdownValues :
           /\ Submitted("CreateSessionFormSubmit", valuesName)
           /\ NoSubmission("createSession")
           /\ LET name == Trim(valuesName)
                  dir == IF form.kind = "createSessionText" THEN DirectoryOrHome(directory)
                         ELSE DropdownDirectory(directory)
              IN IF name = <<>>
                 THEN /\ toasts.n < MaxToasts
                      /\ ShowToast("failure", "Name required", NoMessage)
                      /\ UNCHANGED <<procs, nexec>>
                 ELSE /\ nexec < MaxExec
                      /\ ExecHolding(CreateSessionCmd(name, dir), "createSession",
                                     "createSession", <<name, dir>>, directory)
                      /\ UNCHANGED toasts
    /\ UNCHANGED <<revision, tmux, ret, life, sessionVars, windowVars, batches, form>>

\* CreateSessionForm.onSubmit of either form after await createSession:
\* onCreate() is the loadSessions of the view that pushed the form.
CreateSessionFormDone ==
    \E p \in procs, outcome \in Outcomes({<<>>}) :
        /\ p.k = "createSession"
        /\ Called("CreateSessionFormDone", outcome)
        /\ IF RunCommand(outcome).status = "resolved"
           THEN /\ ShowToast("default", "Created session", NoMessage)
                /\ LoadSessionsAfter(p)
                /\ form' = NoForm
           ELSE /\ HandleError("Failed to create session", RunCommand(outcome).value)
                /\ Finish(p)
                /\ UNCHANGED form
        /\ UNCHANGED <<revision, tmux, ret, life, sessionVars, windowVars, batches>>

InitCreateSession == Init /\ revision = "components"

CreateSessionNext ==
    \/ OpenCreateSessionForm
    \/ SearchTextChange
    \/ LoadSuggestionsDone
    \/ CreateSessionFormSubmit
    \/ CreateSessionFormDone
    \/ LoadSessionsDone

SpecCreateSession == InitCreateSession /\ [][CreateSessionNext]_vars

----------------------------------------------------------------------------
(* One behaviour runs one revision. *)

Next ==
    \/ ServerNext
    \/ LibNext
    \/ SessionsNext
    \/ SessionFormsNext
    \/ CreateSessionNext
    \/ WindowsNext
    \/ ViewsNext
    \/ FirstNext
    \/ SecondNext
    \/ ParseNext

Spec == Init /\ [][Next]_vars

\* The listing of the windows: lib/tmux called directly, and the window views.
InitWindowListing == Init /\ revision \in {"lib"} \cup WindowRevisions

WindowListingNext == LibNext \/ WindowsNext

SpecWindowListing == InitWindowListing /\ [][WindowListingNext]_vars

\* The two implementations of the session listing: lib/tmux and TmuxSessions.
InitListing == Init /\ revision \in {"lib", "sessions"}

ListingNext == LibNext \/ SessionsNext

SpecListing == InitListing /\ [][ListingNext]_vars

\* The session listing of lib/tmux and of TmuxSessions, each run against the
\* executor and applied to the texts of the parsers.
InitSnapshots == Init /\ revision \in {"lib", "sessions", "parse"}

SnapshotsNext ==
    \/ LibGetSessions
    \/ LibGetSessionsDone
    \/ Mount
    \/ Tick
    \/ LoadSessionsDone
    \/ ParseGetSessions
    \/ ParseLoadSessions

SpecSnapshots == InitSnapshots /\ [][SnapshotsNext]_vars

----------------------------------------------------------------------------
(* Properties *)

MutationOps == {"switchClient", "killSession", "createSession", "renameSession",
                "killWindow", "newWindow", "renameWindow"}
\* The characters that end or reopen a quoted string.
QuoteChars == {"\"", "'", Backquote, "\\"}

AttachedFirstThenRecent(rs) ==
    \A i \in 1..Len(rs), j \in 1..Len(rs) :
        i < j =>
            /\ rs[i].attached \/ ~rs[j].attached
            /\ rs[i].attached = rs[j].attached => rs[i].lastAttached >= rs[j].lastAttached

\* C1: the sequence getSessions resolves with, and the snapshot loadSessions
\* sets, has every attached record before every detached one, and lastAttached
\* is non-increasing within the attached and within the detached records.
C1_AttachedFirstThenRecent ==
    /\ ret.op = "getSessions" /\ ret.status = "resolved" => AttachedFirstThenRecent(ret.value)
    /\ revision = "sessions" => AttachedFirstThenRecent(sessions)

\* getSessions returned an attached session last attached at 500 in front of a
\* detached one last attached at 900.
C1_Witness ==
    /\ ret.op = "getSessions"
    /\ ret.status = "resolved"
    /\ Len(ret.value) = 2
    /\ ret.value[1].attached /\ ret.value[1].lastAttached = 500
    /\ ~ret.value[2].attached /\ ret.value[2].lastAttached = 900

\* C2: whenever the held snapshot is replaced, the listing applied was started
\* no earlier than the listing whose result was held before.
C2_AppliedInStartOrder == [][held' >= held]_vars

\* C3: at most one listing call of a view is in flight.
C3_OneListingInFlight ==
    Cardinality({p \in procs : p.k \in {"loadSessions", "loadWindows"}}) <= 1

\* C4: getSessions never rejects, and resolves with the empty sequence when
\* the command executor fails.
C4_GetSessionsNeverRejects ==
    ret.op = "getSessions" /\ ret.status # "pending" =>
        /\ ret.status = "resolved"
        /\ ret.err => ret.value = <<>>

\* getSessions has settled after the executor failed.
C4_Witness == ret.op = "getSessions" /\ ret.status = "resolved" /\ ret.err

\* C5: when a session listing fails, the session view replaces its snapshot
\* with the empty list and shows no toast.
C5_FailedListingEmptiesSilently ==
    [][step'.act \in {"LoadSessionsDone", "FirstListDone"} /\ step'.error =>
          sessions' = <<>> /\ toasts' = toasts]_vars

\* C6: when a window listing fails, the held window list becomes empty.
C6_FailedListingEmptiesWindows ==
    [][step'.act = "LoadWindowsDone" /\ step'.error => windows' = <<>>]_vars

\* The pieces of a create-session command between -c " and the closing quote.
DirPieces(cmd) ==
    LET c == CHOOSE i \in 1..Len(cmd) : cmd[i] = [c |-> " -c \"", o |-> "tpl"]
    IN SubSeq(cmd, c + 1, Len(cmd) - 1)

\* pieces is text with one backslash added in front of each character of
\* meta and nothing else added or changed.
EscapedExactly(meta, pieces, text) ==
    /\ ArgChars(pieces) = text
    /\ \A i \in 1..Len(pieces) :
           /\ pieces[i].o \in {"arg", "esc"}
           /\ pieces[i].o = "arg" /\ pieces[i].c \in meta =>
                  i > 1 /\ pieces[i - 1].o = "esc"
           /\ pieces[i].o = "esc" =>
                  /\ pieces[i].c = "\\"
                  /\ i < Len(pieces)
                  /\ pieces[i + 1].o = "arg"
                  /\ pieces[i + 1].c \in meta

\* C7, as stated: the directory of a create-session command is the directory
\* passed with one backslash added in front of each double quote, single quote,
\* backquote and backslash, and no other change.
C7_FourCharactersEscaped ==
    \A p \in procs :
        p.op = "createSession" => EscapedExactly(QuoteChars, DirPieces(p.cmd), p.args[2])

\* C7, amended: the dollar sign gets a backslash too.
C7_DirectoryEscaped ==
    \A p \in procs :
        p.op = "createSession" =>
            EscapedExactly(QuoteChars \cup {"$"}, DirPieces(p.cmd), p.args[2])

\* createSession runs for the directory $" .
C7_Witness ==
    \E p \in procs :
        /\ p.op = "createSession"
        /\ p.args[2] = <<"$", "\"">>
        /\ CmdText(DirPieces(p.cmd)) = <<"\\", "$", "\\", "\"">>

\* C8: in the command line of a mutation, every double quote, single quote,
\* backquote and backslash that comes from an argument has a backslash in
\* front of it.
C8_ArgumentsEscaped ==
    \A p \in procs :
        p.op \in MutationOps =>
            \A i \in 1..Len(p.cmd) :
                p.cmd[i].o = "arg" /\ p.cmd[i].c \in QuoteChars =>
                    i > 1 /\ p.cmd[i - 1].c = "\\"

\* The names and identifiers among the arguments of a mutation.
NameArgs(p) == IF p.op = "createSession" THEN <<p.args[1]>> ELSE p.args

\* C9: a mutation whose name or identifier is empty after trimming starts no
\* process.
C9_EmptyNameNeverSent ==
    \A p \in procs :
        p.op \in MutationOps =>
            \A i \in 1..Len(NameArgs(p)) : Trim(NameArgs(p)[i]) # <<>>

\* C10: submitting rename-window with a name that is empty after trimming
\* starts no process and no refresh, and shows the validation failure.
C10_EmptyRenameStaysLocal ==
    [][step'.act = "RenameWindowSubmit" /\ Trim(step'.value) = <<>> =>
          /\ procs' = procs
          /\ nexec' = nexec
          /\ toasts'.n = toasts.n + 1
          /\ toasts'.last = [style |-> "failure", title |-> "Name required",
                           message |-> NoMessage]]_vars

\* A rename-window form was submitted with a single space and the failure
\* toast is up.
C10_Witness ==
    /\ step.act = "RenameWindowSubmit"
    /\ step.value = <<" ">>
    /\ toasts.last = [style |-> "failure", title |-> "Name required", message |-> NoMessage]

----------------------------------------------------------------------------
(* Properties of the parsers *)

SessionOps == {"getSessions", "loadSessions"}
WindowOps == {"getWindows", "loadWindows"}

\* A parser of the session listing, of the window listing, has returned.
SessionsParsed == revision = "parse" /\ ret.op \in SessionOps
WindowsParsed == revision = "parse" /\ ret.op \in WindowOps

IsBlank(line) == Len(line) = 1 /\ \A i \in 1..Len(line[1]) : line[1][i] \in Whitespace

\* The lines of the text that carry a record.
NonBlank(text) == SelectSeq(text, LAMBDA line : ~IsBlank(line))

\* An optional minus sign and at least one digit, nothing else.
WellFormedInteger(t) ==
    LET u == IF t # <<>> /\ Head(t) = "-" THEN Tail(t) ELSE t
    IN u # <<>> /\ \A i \in 1..Len(u) : u[i] \in Digits

\* C11: a session line whose numeric field is missing at the end of the line,
\* empty or malformed yields a record, and that field of the record is 0.
C11_MalformedNumberIsZero ==
    SessionsParsed /\ Len(NonBlank(step.value)) = 1 =>
        LET line == NonBlank(step.value)[1]
            r == ret.value[1]
            field == <<2, 6, 7>>
            number == <<r.windowCount, r.paneCount, r.lastAttached>>
        IN /\ ret.status = "resolved"
           /\ Len(ret.value) = 1
           /\ \A k \in 1..3 :
                  field[k] > Len(line) \/ ~WellFormedInteger(line[field[k]]) =>
                      number[k] = 0

\* C12: a listing text that is empty or has only blank lines yields the empty
\* sequence of records, and no blank line of any text yields a record.
C12_BlankLinesYieldNothing ==
    SessionsParsed \/ WindowsParsed =>
        /\ ret.status = "resolved"
        /\ Len(ret.value) = Len(NonBlank(step.value))

\* Two blank lines were parsed as a session listing.
C12_Witness ==
    /\ SessionsParsed
    /\ step.value = <<BlankLine, BlankLine>>
    /\ ret.value = <<>>

WebRecord ==
    [name |-> WebLine[1], windowCount |-> 2, attached |-> TRUE, created |-> WebLine[4],
     currentWindow |-> WebLine[5], paneCount |-> 3, lastAttached |-> 1700003600]

InfraRecord ==
    [name |-> InfraLine[1], windowCount |-> 1, attached |-> FALSE, created |-> InfraLine[4],
     currentWindow |-> InfraLine[5], paneCount |-> 1, lastAttached |-> 1699000100]

\* C13: the fields of a session line are name, windowCount, attached,
\* created, currentWindow, paneCount, lastAttached in this order, those of a
\* window line id, index, name, active, layout; the two example lines give
\* the record of web, then the record of infra.
C13_FieldsByPosition ==
    /\ SessionsParsed /\ step.value \in {<<WebLine, InfraLine>>, <<InfraLine, WebLine>>} =>
           ret.value = <<WebRecord, InfraRecord>>
    /\ SessionsParsed /\ step.value = <<BaseLine>> =>
           ret.value = <<[name |-> <<"a">>, windowCount |-> 2, attached |-> TRUE,
                          created |-> <<"7">>, currentWindow |-> <<"w">>, paneCount |-> 3,
                          lastAttached |-> 500]>>
    /\ SessionsParsed /\ Len(step.value) = 1 /\ Len(step.value[1]) = 7 =>
           /\ ret.value[1].name = step.value[1][1]
           /\ ret.value[1].created = step.value[1][4]
           /\ ret.value[1].currentWindow = step.value[1][5]
    /\ WindowsParsed /\ Len(step.value) = 1 /\ Len(step.value[1]) = 5 =>
           ret.value = <<[id |-> step.value[1][1], index |-> step.value[1][2],
                          name |-> step.value[1][3], active |-> step.value[1][4] = <<"1">>,
                          layout |-> step.value[1][5]]>>

\* getSessions parsed the example with infra listed first.
C13_Witness ==
    /\ ret.op = "getSessions"
    /\ revision = "parse"
    /\ step.value = <<InfraLine, WebLine>>
    /\ ret.value[1].name = WebLine[1]
    /\ ret.value[2].name = InfraLine[1]

\* C14: attached of a session record, active of a window record, is true
\* exactly when the text of the field of the line is "1".
C14_TrueExactlyForOne ==
    /\ SessionsParsed /\ Len(NonBlank(step.value)) = 1 =>
           LET line == NonBlank(step.value)[1]
           IN ret.value[1].attached <=> (Len(line) >= 3 /\ line[3] = <<"1">>)
    /\ WindowsParsed /\ Len(NonBlank(step.value)) = 1 =>
           LET line == NonBlank(step.value)[1]
           IN ret.value[1].active <=> (Len(line) >= 4 /\ line[4] = <<"1">>)

\* A window line whose active field is 11 was parsed.
C14_Witness ==
    /\ WindowsParsed
    /\ step.value = <<[BaseWindowLine EXCEPT ![4] = <<"1", "1">>]>>
    /\ ~ret.value[1].active

\* C15: windowCount and paneCount of every parsed session record are
\* non-negative.
C15_CountsNonNegative ==
    SessionsParsed =>
        \A i \in 1..Len(ret.value) :
            ret.value[i].windowCount >= 0 /\ ret.value[i].paneCount >= 0

\* How many lines of the text, records of the result, carry the name.
LinesNamed(text, name) == Cardinality({i \in 1..Len(text) : text[i][1] = name})
RecordsNamed(rs, name) == Cardinality({i \in 1..Len(rs) : rs[i].name = name})

\* C16: getSessions returns one record for each non-blank line, as many
\* records of a name as there are lines of that name.
C16_OneRecordPerLine ==
    revision = "parse" /\ ret.op = "getSessions" =>
        LET lines == NonBlank(step.value)
        IN /\ Len(ret.value) = Len(lines)
           /\ \A i \in 1..Len(lines) :
                  RecordsNamed(ret.value, lines[i][1]) = LinesNamed(lines, lines[i][1])

\* getSessions parsed two lines of the same session name.
C16_Witness ==
    /\ revision = "parse"
    /\ ret.op = "getSessions"
    /\ step.value = <<TieLine(<<"a">>), TieLine(<<"a">>)>>
    /\ Len(ret.value) = 2

\* The names of the records that tie with r, in the order of rs.
TiedNames(rs, r) ==
    LET tied == SelectSeq(rs, LAMBDA x : x.attached = r.attached
                                          /\ x.lastAttached = r.lastAttached)
    IN [k \in 1..Len(tied) |-> tied[k].name]

\* The names of the lines of these names, in the order of the text.
NamesListed(text, names) ==
    LET listed == SelectSeq(text, LAMBDA line : \E k \in 1..Len(names) : names[k] = line[1])
    IN [k \in 1..Len(listed) |-> listed[k][1]]

\* Records that tie on attached and lastAttached are in the order of their lines.
TiesKeepListedOrder ==
    SessionsParsed /\ (\A i \in 1..Len(step.value) : step.value[i] \in OrderedSessionLines) =>
        \A i \in 1..Len(ret.value) :
            TiedNames(ret.value, ret.value[i])
                = NamesListed(NonBlank(step.value), TiedNames(ret.value, ret.value[i]))

C18_WindowsInListedOrder ==
    WindowsParsed =>
        LET lines == NonBlank(step.value)
        IN /\ Len(ret.value) = Len(lines)
           /\ \A i \in 1..Len(lines) :
                  /\ ret.value[i].id = lines[i][1]
                  /\ Len(lines[i]) = 5 =>
                         /\ ret.value[i].index = lines[i][2]
                         /\ ret.value[i].name = lines[i][3]

\* Window 1 at index 1 was listed in front of window 2 at index 0.
C18_Witness ==
    /\ WindowsParsed
    /\ Len(ret.value) = 2
    /\ ret.value[1].id = <<"@", "1">> /\ ret.value[1].index = <<"1">>
    /\ ret.value[2].id = <<"@", "2">> /\ ret.value[2].index = <<"0">>

----------------------------------------------------------------------------
(* Properties of the mutations *)

\* The text a mutation's command line starts with.
OwnCommand ==
    [op \in MutationOps |->
        CASE op = "switchClient" -> "tmux switch-client -t "
          [] op = "killSession" -> "tmux kill-session -t "
          [] op = "createSession" -> "tmux new-session -d -s "
          [] op = "renameSession" -> "tmux rename-session -t "
          [] op = "killWindow" -> "tmux kill-window -t "
          [] op = "newWindow" -> "tmux new-window -t "
          [] op = "renameWindow" -> "tmux rename-window -t "]

\* The steps in which a caller invokes a mutation, and in which its command
\* has returned.
MutationCalls ==
    MutationOps \cup {"SwitchToSession", "DeleteSession", "CreateSessionSubmit",
                      "HandleSwitch", "HandleDelete", "RenameWindowSubmit"}
MutationReturns ==
    {"runCommand", "switchToSession", "deleteSession", "CreateSessionDone",
     "handleSwitch", "handleDelete", "RenameWindowDone"}

\* C19: the call of a mutation starts at most one process, that of its own
\* command and never a listing; the snapshot of the windows changes only in
\* the callback of a listing of windows, that of the sessions only in the
\* callback of a listing of sessions.
C19_MutationsOnlyRunTheirCommand ==
    [][/\ step'.act \in MutationCalls =>
              /\ Cardinality(procs' \ procs) <= 1
              /\ procs \subseteq procs'
              /\ \A p \in procs' \ procs :
                     /\ p.op \in MutationOps
                     /\ p.cmd[1] = [c |-> OwnCommand[p.op], o |-> "tpl"]
              /\ step'.act \in MutationOps =>
                     \E p \in procs' \ procs : p.op = step'.act
              /\ windows' = windows /\ sessions' = sessions
       /\ revision = "lib" /\ step'.act \in MutationReturns =>
              /\ procs' \subseteq procs
              /\ windows' = windows /\ sessions' = sessions
       /\ windows' # windows => step'.act = "LoadWindowsDone"
       /\ sessions' # sessions => step'.act = "LoadSessionsDone"]_vars

\* killWindow of lib/tmux has been called and its command runs.
C19_Witness ==
    /\ revision = "lib"
    /\ ret.op = "killWindow"
    /\ ret.status = "pending"
    /\ \E p \in procs : procs = {p} /\ p.op = "killWindow"

\* C20: when the command of a mutation fails, the mutation rejects with the
\* error of the process, and the caller shows a failure toast with the message
\* of that error and starts nothing.
C20_MutationFailureReported ==
    [][/\ revision = "lib" /\ step'.act = "runCommand" /\ step'.error =>
              /\ ret'.op \in MutationOps
              /\ ret'.status = "rejected"
              /\ ret'.value = step'.value
       /\ step'.act \in MutationReturns \ {"runCommand"} /\ step'.error =>
              /\ toasts'.n = toasts.n + 1
              /\ toasts'.last.style = "failure"
              /\ toasts'.last.message = step'.value
              /\ step'.value \in ErrorMessages
              /\ procs' \subseteq procs]_vars

\* The window view reports that switching failed because no server runs.
C20_Witness ==
    /\ step.act = "handleSwitch"
    /\ step.error
    /\ toasts.last = [style |-> "failure", title |-> "Failed to switch window",
                      message |-> <<"no server running">>]

----------------------------------------------------------------------------
(* Properties of the command executor, the views and their timers *)

\* C28: the promise of runCommand is pending until the callback of exec runs,
\* which ends the process; it is then resolved with the standard output when
\* exec reported no error and rejected with the error otherwise, and a settled
\* promise never changes.
C28_RunCommandSettlesOnce ==
    [][/\ step'.act = "runCommand" =>
              /\ ret.status = "pending"
              /\ ret'.status = (IF step'.error THEN "rejected" ELSE "resolved")
              /\ ret'.value = step'.value
              /\ step'.error => step'.value \in ErrorMessages
              /\ \E p \in procs : p.k = "runCommand" /\ procs' = procs \ {p}
       /\ ret.status \in {"resolved", "rejected"} => ret' = ret]_vars

\* killSession has resolved after its command printed a text.
C28_Witness ==
    /\ revision = "lib"
    /\ step.act = "runCommand"
    /\ ret = [op |-> "killSession", status |-> "resolved",
              value |-> <<"o", "k", "\n">>, err |-> FALSE]
    /\ procs = {}

\* C24: the callback of a failed command starts no process and shows at most
\* one toast, exactly one when the command is that of a mutation called by a
\* view; a process is started only by a step that is not such a callback.
C24_NoRetry ==
    [][/\ step'.error =>
              /\ procs' \subseteq procs
              /\ nexec' = nexec
              /\ toasts'.n \in {toasts.n, toasts.n + 1}
              /\ toasts'.n = toasts.n + 1 => toasts'.last.style = "failure"
              /\ step'.act \in MutationReturns \ {"runCommand"} => toasts'.n = toasts.n + 1
       /\ nexec' > nexec => ~step'.error]_vars

\* Deleting a window has failed: one toast, and no process runs.
C24_Witness ==
    /\ revision = "components"
    /\ step.act = "handleDelete"
    /\ step.error
    /\ toasts.n = 1
    /\ toasts.last.title = "Failed to delete window"
    /\ procs = {}

\* C25: after the callback of a successful listing the view holds exactly the
\* records parsed from the output of that listing, in the order of the parser.
C25_SnapshotReplaced ==
    /\ step.act = "LoadSessionsDone" /\ ~step.error => sessions = ParsedSessions(step.value)
    /\ step.act = "LoadWindowsDone" /\ ~step.error => windows = ParseWindows(step.value)

\* The second listing of the session view listed session b alone, after the
\* first one had been applied.
C25_Witness ==
    /\ step.act = "LoadSessionsDone"
    /\ ~step.error
    /\ held = 2
    /\ nexec = 2
    /\ procs = {}
    /\ Len(sessions) = 1
    /\ sessions[1].name = <<"b">>

\* C21: once a view is unmounted its interval is cleared and stays cleared,
\* and no step of the view is a tick of its timer.
C21_NoTickAfterTeardown ==
    /\ [](life = "unmounted" => ~timer /\ winTimer = {})
    /\ [][life = "unmounted" => /\ step'.act \notin {"Tick", "WinTick"}
                                /\ life' = "unmounted"]_vars

\* The session view was unmounted while its second listing was still running.
C21_Witness ==
    /\ revision = "sessions"
    /\ life = "unmounted"
    /\ step.act = "Unmount"
    /\ nexec = 2
    /\ \E p \in procs : p.k = "loadSessions" /\ p.id = 2

\* The steps in which confirmAlert resolved false.
Declined == {"DeleteSessionDeclined", "HandleDeleteDeclined"}

\* C26: kill-session and kill-window are started only by the step in which
\* confirmAlert resolved true; the step in which it resolved false starts no
\* process and changes nothing of the view.
C26_DeleteNeedsConfirmation ==
    [][/\ \A p \in procs' \ procs :
              /\ p.op = "killSession" => step'.act = "DeleteSession"
              /\ p.op = "killWindow" => step'.act = "HandleDelete"
       /\ step'.act \in Declined =>
              /\ procs' = procs
              /\ nexec' = nexec
              /\ sessions' = sessions
              /\ windows' = windows
              /\ toasts' = toasts]_vars

\* The user declined to delete a listed window while no command runs.
C26_Witness ==
    /\ step.act = "HandleDeleteDeclined"
    /\ Len(windows) > 0
    /\ procs = {}

\* C29: the timer of the session view runs its callback 10 seconds after the
\* view was mounted or the callback ran last, and the callback starts one
\* listing of the sessions.
C29_ListingEveryTenSeconds ==
    [][step'.act \in {"Tick", "FirstTick", "SecondTick"} =>
           /\ step'.after = 10000
           /\ nexec' = nexec + 1
           /\ \E p \in procs' \ procs : p.op = "list-sessions"]_vars

\* The callbacks of the commands that a listing of the sessions runs.
ListingCallbacks ==
    {"LoadSessionsDone", "FirstListDone", "FirstWindowsDone", "FirstDetailDone",
     "SecondListDone", "SecondDetailDone"}

\* C23: a call of the session listing starts one command, and the callback
\* of that command starts none, however many sessions it lists.
C23_OneCommandPerListing ==
    [][/\ step'.act \in {"Mount", "Tick", "Refresh", "FirstMount", "FirstTick",
                         "SecondMount", "SecondTick", "SecondRefresh"} =>
              nexec' = nexec + 1
       /\ ret'.op = "getSessions" /\ ret'.status = "pending" => nexec' = nexec + 1
       /\ ret.op = "getSessions" /\ ret.status = "pending" => nexec' = nexec
       /\ step'.act \in ListingCallbacks /\ ~step'.error => procs' \subseteq procs]_vars

\* A field holds the sentinel.
HoldsSentinel(field) == IndexOf(field, Sep) # 0

\* C27: the parser of a line of fields that hold no sentinel returns the
\* texts of the name, creation time and window name of a session, and of the
\* id, index, name and layout of a window, as they were joined.
C27_FieldsSurviveJoin ==
    /\ SessionsParsed /\ Len(step.value) = 1 /\ Len(step.value[1]) = 7
           /\ (\A i \in 1..7 : ~HoldsSentinel(step.value[1][i])) =>
           /\ Len(ret.value) = 1
           /\ ret.value[1].name = step.value[1][1]
           /\ ret.value[1].created = step.value[1][4]
           /\ ret.value[1].currentWindow = step.value[1][5]
    /\ ret.op \in WindowOps \cup {"secondWindows"} /\ Len(step.value) = 1
           /\ Len(step.value[1]) = 5
           /\ (\A i \in 1..5 : ~HoldsSentinel(step.value[1][i])) =>
           /\ Len(ret.value) = 1
           /\ ret.value[1].id = step.value[1][1]
           /\ ret.value[1].index = step.value[1][2]
           /\ ret.value[1].name = step.value[1][3]
           /\ ret.value[1].layout = step.value[1][5]


\* The ids of the window records on display: those of the list and that of the
\* record a rename form was pushed for. The records of the first revision
\* are names, and have no id.
DisplayedWindowIds ==
    IF revision \in WindowRevisions
    THEN {windows[i].id : i \in 1..Len(windows)} \cup
         (IF form.kind = "renameWindow" THEN {form.windowId} ELSE {})
    ELSE {}

\* The processes of the commands that rename, delete or switch to a window
\* from a view.
WindowMutationKinds == {"handleSwitch", "handleDelete", "renameWindowForm", "firstRenameWindow"}

\* C22: the target of every command a view starts to rename, delete or switch
\* to a window is the id of a window record on display.
C22_WindowTargetIsId ==
    [][\A p \in procs' \ procs :
          p.k \in WindowMutationKinds => p.args[1] \in DisplayedWindowIds]_vars

\* The steps in which a form or a list action calls a mutation, and in which
\* the command of one has returned.
ViewMutationCalls ==
    {"SwitchToSession", "DeleteSession", "CreateSessionSubmit", "HandleSwitch",
     "HandleDelete", "RenameWindowSubmit", "FirstRenameWindowSubmit",
     "FirstCreateWindowSubmit"}
ViewMutationReturns ==
    {"switchToSession", "deleteSession", "CreateSessionDone", "handleSwitch",
     "handleDelete", "RenameWindowDone", "FirstRenameWindowDone", "FirstCreateWindowDone"}

\* C30: a form or a list action starts the listing that refreshes the
\* directory only in the step in which its command has returned without an
\* error, never in the step that starts the command.
C30_RefreshOnlyAfterSuccess ==
    [][step'.act \in ViewMutationCalls \cup ViewMutationReturns =>
          \A p \in procs' \ procs :
              p.op \in {"list-sessions", "list-windows"} =>
                  step'.act \in ViewMutationReturns /\ ~step'.error]_vars


----------------------------------------------------------------------------
(* Properties of the listings in the views and of the forms *)

\* C31: getWindows rejects with the error of the executor when its command
\* fails, and the window view then shows one failure toast that carries the
\* message of that error, and keeps the windows it held.
C31_WindowListingFailureSurfaced ==
    [][/\ step'.act = "getWindows" /\ step'.error =>
              /\ ret'.status = "rejected"
              /\ ret'.value = step'.value
       /\ step'.act = "LoadWindowsDone" /\ step'.error =>
              /\ toasts'.n = toasts.n + 1
              /\ toasts'.last = [style |-> "failure", title |-> "Error loading windows",
                                 message |-> step'.value]
              /\ windows' = windows]_vars

\* A listing of the windows has failed in the view: one toast with the message
\* of the error.
C31_Witness ==
    /\ revision = "components"
    /\ step.act = "LoadWindowsDone"
    /\ step.error
    /\ step.value # <<>>
    /\ toasts.n = 1
    /\ toasts.last.title = "Error loading windows"
    /\ toasts.last.message = step.value


\* C32: once the loading flag of a view is false it stays false, whatever
\* starts the next listing.
C32_LoadingFlagStaysFalse ==
    [][/\ ~isLoading => ~isLoading'
       /\ ~winLoading => ~winLoading']_vars


\* C33: after the teardown of a view no step sets its snapshot or its loading
\* flag, the callback of a listing that was running at the teardown included.
C33_NoUpdateAfterTeardown ==
    [][life = "unmounted" =>
          /\ sessions' = sessions /\ isLoading' = isLoading
          /\ windows' = windows /\ winLoading' = winLoading]_vars


\* What the view holds when it has listed the state of the server.
ServerSnapshot ==
    IF tmux.outcome.error THEN <<>> ELSE ParsedSessionsOf[tmux.outcome.stdout]

\* C34: when the timer ticks and every listing returns, the session view
\* comes to hold the sorted parse of the state the server has stopped at, and
\* holds it from then on.
C34_SnapshotConverges == <>[](sessions = ServerSnapshot)

\* The server changed while the first listing was running; a later listing
\* has returned and the view holds the sessions of the server.
C34_Witness ==
    /\ revision = "sessions"
    /\ tmux.since = 1
    /\ held > 1
    /\ procs = {}
    /\ Len(sessions) = 2
    /\ sessions = ServerSnapshot


\* C35: a window view has at most one interval, and a tick of it lists the
\* windows of the session the view was last rendered with: the interval of
\* the session before was cleared when the effect ran again.
C35_OneTimerPerView ==
    /\ [](Cardinality(winTimer) <= 1)
    /\ [](life = "mounted" /\ revision \in WindowRevisions => winTimer = {sessionProp})
    /\ [][step'.act = "WinTick" =>
              \A p \in procs' \ procs : p.args = <<sessionProp>>]_vars

\* The view was rendered with another session name while the listing of the
\* first was running: the one interval is that of the new name.
C35_Witness ==
    /\ step.act = "WinSessionChanged"
    /\ sessionProp = <<"b">>
    /\ winTimer = {<<"b">>}
    /\ \E p \in procs : p.op = "list-windows" /\ p.args = <<<<"a">>>>
    /\ \E p \in procs : p.op = "list-windows" /\ p.args = <<<<"b">>>>

FormSubmits ==
    {"CreateSessionSubmit", "CreateSessionFormSubmit", "RenameSessionSubmit", "RenameWindowSubmit",
     "FirstRenameWindowSubmit", "FirstCreateWindowSubmit"}
FormReturns ==
    {"CreateSessionDone", "CreateSessionFormDone", "RenameSessionDone", "RenameWindowDone", "FirstRenameWindowDone",
     "FirstCreateWindowDone"}
RenameSubmits == {"RenameSessionSubmit", "RenameWindowSubmit", "FirstRenameWindowSubmit"}

\* C37: an open form is dismissed only in the step in which its command has
\* returned without an error, or in the submission of a rename whose trimmed
\* name equals the current one; a submission that fails validation and a
\* command that fails leave the form open and start no listing.
C37_FormDismissedOnlyAfterSuccess ==
    [][/\ form.kind # "none" /\ form'.kind = "none" =>
              \/ step'.act \in FormReturns /\ ~step'.error
              \/ step'.act \in RenameSubmits /\ Trim(step'.value) = form.currentName
       /\ \/ step'.act \in FormSubmits /\ Trim(step'.value) = <<>>
          \/ step'.act \in FormReturns /\ step'.error
          => /\ form' = form
             /\ \A p \in procs' \ procs : p.op \notin {"list-sessions", "list-windows"}]_vars

\* C36: the submission of a rename form whose trimmed name equals the current
\* name starts no command and no listing, and only dismisses the form.
C36_RenameToSameNameDoesNothing ==
    [][step'.act \in RenameSubmits /\ Trim(step'.value) = form.currentName =>
          /\ procs' = procs
          /\ toasts' = toasts
          /\ form' = NoForm]_vars

\* C38: a create-session form submitted with a directory that is missing,
\* empty or blank starts its command with the directory ~, and no
\* create-session command of a form has an empty directory.
C38_BlankDirectoryIsHome ==
    [][\A p \in procs' \ procs :
          p.op = "createSession" /\ step'.act \in FormSubmits =>
              /\ p.cmd = CreateSessionCmd(p.args[1], p.args[2])
              /\ p.args[2] # <<>>
              /\ p.ctx = Undefined \/ Trim(p.ctx) = <<>> => p.args[2] = <<"~">>]_vars

\* What exec handed to the callback of the last step.
StepOutcome == IF step.error THEN Failure(step.value) ELSE Success(step.value)

\* C39: for every outcome of the listing command, a failure included, the
\* snapshot that the callback of loadSessions sets is the sequence that
\* getSessions returns for that outcome, record for record and in order.
C39_ViewSnapshotEqualsLibrary ==
    /\ revision = "sessions" /\ step.act = "LoadSessionsDone" =>
           sessions = GetSessions(StepOutcome).value
    /\ revision = "lib" /\ ret.op = "getSessions" /\ ret.status = "resolved" =>
           ret.value = IF ret.err THEN <<>> ELSE ParsedSessions(step.value)
    /\ revision = "parse" /\ ret.op = "loadSessions" =>
           ret.value = GetSessions(Success(TextOf(step.value))).value
    /\ revision = "parse" /\ ret.op = "getSessions" =>
           ret.value = ParsedSessions(TextOf(step.value))

C39_Witness ==
    /\ revision = "parse"
    /\ ret.op = "loadSessions"
    /\ step.value = <<InfraLine, WebLine>>
    /\ ret.value = GetSessions(Success(TextOf(step.value))).value
    /\ ret.value[1].name = WebLine[1]

============================================================================
